---- MODULE Spec2Model ----
(***************************************************************************)
(* Model of the redaction tool's detection-and-merge engine                *)
(* (src/lib/redaction/patterns.ts, src/lib/redaction/detector.ts,          *)
(* src/app/api/detect-pii/route.ts) and of its session cache               *)
(* (src/lib/redaction/cache.ts).                                           *)
(*                                                                         *)
(* Strings are sequences of one-character strings; offsets are 0-based as  *)
(* in the source; confidences are integers in hundredths (0.95 is 95).     *)
(***************************************************************************)
EXTENDS Integers, Sequences, FiniteSets, TLC

VARIABLES
  \* ---- one detectAllPII invocation (detector.ts) ----
  text,                  \* the text argument
  types,                 \* the types argument (Undefined when omitted)
  pc,                    \* position of the async function
  regexMatches,          \* detector.ts:424
  allMatches,            \* detector.ts:414
  mergedSoFar,           \* detector.ts:445
  additionalOccurrences, \* detector.ts:454
  finalMatches,          \* detector.ts:460
  result,                \* the value the promise resolves to
  calls,                 \* the client.llm.chat calls issued so far, by call site
  unreachable,           \* every call issued so far was rejected by the service
  apiKey,                \* whether CASEDEV_API_KEY is set (client.ts:220-224)
  \* ---- the session cache (cache.ts) ----
  cache,                 \* the array stored under CACHE_KEY (empty when the key is absent)
  now,                   \* the clock, in milliseconds
  nextId,                \* number of identifiers crypto.randomUUID() has handed out
  exported,              \* the texts exportCache has returned (at most the latest)
  lastOp,                \* the latest cache operation: its arguments, the cache before it, whether it threw
  \* ---- the masking function (detector.ts:501) ----
  maskLog,               \* the maskEntity calls made so far: type, value and the string returned
  \* ---- the rate limiter (src/lib/security/rate-limit.ts) ----
  rateLimitStore,        \* rate-limit.ts:18, a map from key to {count, resetTime}
  lastCleanup,           \* rate-limit.ts:22
  rateLog,               \* the checkRateLimit calls made so far: request, time, key, the entry stored under the key, the value returned
  \* ---- findCachedMatches (cache.ts), step by step ----
  redaction,             \* one export: the text, the reviewed entities, the redacted text of each export route
  finder,                \* position of the call: pc, lowerText, the entry and offset of the scan, matches, the value returned
  \* ---- the API routes (src/app/api) ----
  route,                 \* one POST /api/detect-pii: its position, the vault context, the response
  job                    \* one redaction job: its status, its documents, the POST handlers in progress

detVars == <<text, types, pc, regexMatches, allMatches, mergedSoFar, additionalOccurrences, finalMatches, result, calls, unreachable, apiKey>>
cacheVars == <<cache, now, nextId, exported, lastOp>>
rateVars == <<rateLimitStore, lastCleanup, rateLog>>
appVars == <<finder, redaction, route, job>>
svcVars == <<maskLog, rateVars, appVars>>
vars == <<detVars, cacheVars, svcVars>>

\* no cache operation has run: the session storage holds no entry
CacheUntouched ==
  /\ cache = <<>>
  /\ now = 0
  /\ nextId = 0
  /\ exported = <<>>
  /\ lastOp = [op |-> "none", n |-> 0, threw |-> FALSE, before |-> <<>>]

\* maskEntity has not been called
MaskIdle ==
  maskLog = <<>>

\* the module has just been loaded: the store is empty, lastCleanup is the load time
EmptyStore == [k \in {} |-> [count |-> 0, resetTime |-> 0]]

RateIdle ==
  /\ rateLimitStore = EmptyStore
  /\ lastCleanup = 0
  /\ rateLog = <<>>

\* findCachedMatches has not been called, nothing is being exported
AppIdle ==
  /\ finder = [pc |-> "idle"]
  /\ redaction = [pc |-> "idle"]
  /\ route = [pc |-> "idle"]
  /\ job = [pc |-> "idle"]

\* no detection is in progress
DetectorAtRest ==
  /\ text = <<>>
  /\ types = <<"undefined">>
  /\ pc = "idle"
  /\ regexMatches = <<>>
  /\ allMatches = <<>>
  /\ mergedSoFar = <<>>
  /\ additionalOccurrences = <<>>
  /\ finalMatches = <<>>
  /\ result = <<>>
  /\ calls = <<>>
  /\ unreachable = TRUE

\* no detection is in progress and the service key is configured
DetectorIdle ==
  /\ DetectorAtRest
  /\ apiKey = TRUE

(***************************************************************************)
(* JavaScript values                                                       *)
(***************************************************************************)
\* A missing property / omitted argument.  No string of the model equals it:
\* every character of a string is a one-character string.
Undefined == <<"undefined">>

Digits == {"0", "1", "2", "3", "4", "5", "6", "7", "8", "9"}
LowerAlphabet == <<"a", "b", "c", "d", "e", "f", "g", "h", "i", "j", "k", "l", "m", "n", "o", "p", "q", "r", "s", "t", "u", "v", "w", "x", "y", "z">>
UpperAlphabet == <<"A", "B", "C", "D", "E", "F", "G", "H", "I", "J", "K", "L", "M", "N", "O", "P", "Q", "R", "S", "T", "U", "V", "W", "X", "Y", "Z">>
LowerLetters == {LowerAlphabet[j] : j \in 1..26}
UpperLetters == {UpperAlphabet[j] : j \in 1..26}
\* \w of a regular expression without the u flag
WordChars == LowerLetters \cup UpperLetters \cup Digits \cup {"_"}
\* \s (the members a TLA+ string can spell)
WhiteSpace == {" ", "\t", "\n", "\r", "\f"}

Min(a, b) == IF a < b THEN a ELSE b
Max(a, b) == IF a > b THEN a ELSE b

\* String.prototype.toLowerCase, character by character.  Characters outside
\* ASCII are spelled by code point: "U+0130" (capital I with dot above) lowercases
\* to the two code units "i" and "U+0307" (combining dot above).
toLowerChar(c) ==
  IF c \in UpperLetters THEN <<LowerAlphabet[CHOOSE j \in 1..26 : UpperAlphabet[j] = c]>>
  ELSE IF c = "U+0130" THEN <<"i", "U+0307">>
  ELSE <<c>>

RECURSIVE toLowerCase(_)
toLowerCase(s) == IF s = <<>> THEN <<>> ELSE toLowerChar(Head(s)) \o toLowerCase(Tail(s))

\* String.prototype.indexOf(sub, from) for 0 <= from; -1 when absent
RECURSIVE indexOf(_, _, _)
indexOf(s, sub, from) ==
  IF from + Len(sub) > Len(s) THEN (IF sub = <<>> THEN Len(s) ELSE -1)
  ELSE IF \A k \in 1..Len(sub) : s[from + k] = sub[k] THEN from
  ELSE indexOf(s, sub, from + 1)

\* String.prototype.substring(a, b): both ends clamped to [0, length] and swapped
\* when a > b.
substring(s, a, b) ==
  LET ca == Max(0, Min(a, Len(s)))
      cb == Max(0, Min(b, Len(s)))
  IN  SubSeq(s, Min(ca, cb) + 1, Max(ca, cb))

\* String.prototype.slice(-n)
sliceLast(s, n) == SubSeq(s, Max(1, Len(s) - n + 1), Len(s))

RECURSIVE Concat(_)
Concat(ss) == IF ss = <<>> THEN <<>> ELSE Head(ss) \o Concat(Tail(ss))

\* s.startsWith(p, at)
StartsWithAt(s, p, at) ==
  /\ at + Len(p) <= Len(s)
  /\ \A k \in 1..Len(p) : s[at + k] = p[k]

(***************************************************************************)
(* Regular expressions (ECMAScript backtracking semantics).  A node is a   *)
(* record; Match returns the matcher states reachable from st in the       *)
(* order in which backtracking tries them, so the head of the list is the  *)
(* match RegExp.prototype.exec reports.  A state is the position and the   *)
(* text captured by group 3 (the only back-referenced group).              *)
(***************************************************************************)
Ch(S) == [k |-> "set", s |-> S]
Sq(ns) == [k |-> "seq", a |-> ns]
Alt(ns) == [k |-> "alt", a |-> ns]
Rep(n, lo, hi) == [k |-> "rep", n |-> n, min |-> lo, max |-> hi]
Opt(n) == Rep(n, 0, 1)
Star(n) == Rep(n, 0, -1)
Plus(n) == Rep(n, 1, -1)
WB == [k |-> "wb"]
NLA(n) == [k |-> "nla", n |-> n]
Grp3(n) == [k |-> "grp3", n |-> n]
Ref3 == [k |-> "ref3"]
\* a literal, and a literal under the i flag
Lit(cs) == Sq([j \in 1..Len(cs) |-> Ch({cs[j]})])
\* Canonicalize of the i flag on an ASCII letter: the letter matches both cases
UpperOf(c) == IF c \in LowerLetters THEN UpperAlphabet[CHOOSE j \in 1..26 : LowerAlphabet[j] = c] ELSE c
LitI(cs) == Sq([j \in 1..Len(cs) |-> Ch({cs[j], UpperOf(cs[j])})])

IsWordAt(s, p) == p >= 0 /\ p < Len(s) /\ s[p + 1] \in WordChars

RECURSIVE Match(_, _, _)
RECURSIVE Bind(_, _, _)
RECURSIVE MatchSeq(_, _, _, _)
RECURSIVE MatchAlt(_, _, _, _)
RECURSIVE MatchRep(_, _, _, _)
RECURSIVE Progress(_, _)

\* every state of sts continued through n, in order
Bind(n, s, sts) == IF sts = <<>> THEN <<>> ELSE Match(n, s, Head(sts)) \o Bind(n, s, Tail(sts))

MatchSeq(ns, j, s, sts) == IF j > Len(ns) \/ sts = <<>> THEN sts ELSE MatchSeq(ns, j + 1, s, Bind(ns[j], s, sts))

MatchAlt(ns, j, s, st) == IF j > Len(ns) THEN <<>> ELSE Match(ns[j], s, st) \o MatchAlt(ns, j + 1, s, st)

\* the states of sts that consumed at least one character after position p
Progress(sts, p) ==
  IF sts = <<>> THEN <<>>
  ELSE (IF Head(sts).pos > p THEN <<Head(sts)>> ELSE <<>>) \o Progress(Tail(sts), p)

RECURSIVE MatchRepAll(_, _, _, _)
\* greedy quantifier: one more iteration first, then stop here
MatchRep(n, s, st, count) ==
  LET more == IF n.max = -1 \/ count < n.max THEN MatchRepAll(n, s, Progress(Match(n.n, s, st), st.pos), count + 1) ELSE <<>>
  IN  more \o (IF count >= n.min THEN <<st>> ELSE <<>>)

MatchRepAll(n, s, sts, count) == IF sts = <<>> THEN <<>> ELSE MatchRep(n, s, Head(sts), count) \o MatchRepAll(n, s, Tail(sts), count)

Match(n, s, st) ==
  CASE n.k = "set" -> IF st.pos < Len(s) /\ s[st.pos + 1] \in n.s THEN <<[st EXCEPT !.pos = @ + 1]>> ELSE <<>>
    [] n.k = "seq" -> MatchSeq(n.a, 1, s, <<st>>)
    [] n.k = "alt" -> MatchAlt(n.a, 1, s, st)
    [] n.k = "rep" -> MatchRep(n, s, st, 0)
    [] n.k = "wb" -> IF IsWordAt(s, st.pos - 1) # IsWordAt(s, st.pos) THEN <<st>> ELSE <<>>
    [] n.k = "nla" -> IF Match(n.n, s, st) = <<>> THEN <<st>> ELSE <<>>
    [] n.k = "grp3" -> LET r == Match(n.n, s, st) IN [j \in 1..Len(r) |-> [r[j] EXCEPT !.g3 = SubSeq(s, st.pos + 1, r[j].pos)]]
    [] n.k = "ref3" -> IF StartsWithAt(s, st.g3, st.pos) THEN <<[st EXCEPT !.pos = @ + Len(st.g3)]>> ELSE <<>>

\* RegExp.prototype.exec of a global regex: the leftmost index >= lastIndex at
\* which the pattern matches, and the end of the first match found there.
RECURSIVE execFrom(_, _, _)
execFrom(re, s, i) ==
  IF i > Len(s) THEN [found |-> FALSE, index |-> -1, end |-> -1]
  ELSE LET r == Match(re, s, [pos |-> i, g3 |-> <<>>])
       IN  IF r # <<>> THEN [found |-> TRUE, index |-> i, end |-> r[1].pos] ELSE execFrom(re, s, i + 1)

(***************************************************************************)
(* patterns.ts: PII_PATTERNS                                               *)
(***************************************************************************)
D == Ch(Digits)
Ws == Ch(WhiteSpace)
Sep == Ch({"-", "."} \cup WhiteSpace)
D2to9 == Ch(Digits \ {"0", "1"})
AlphaNum == LowerLetters \cup UpperLetters \cup Digits

\* /\b(?!000|666|9\d{2})([0-8]\d{2}|7([0-6]\d|7[012]))([-\s]?)(?!00)\d{2}\3(?!0000)\d{4}\b/g
SSN_REGEX ==
  Sq(<<WB,
       NLA(Alt(<<Lit(<<"0", "0", "0">>), Lit(<<"6", "6", "6">>), Sq(<<Ch({"9"}), Rep(D, 2, 2)>>)>>)),
       Alt(<<Sq(<<Ch(Digits \ {"9"}), Rep(D, 2, 2)>>),
             Sq(<<Ch({"7"}), Alt(<<Sq(<<Ch(Digits \ {"7", "8", "9"}), D>>), Sq(<<Ch({"7"}), Ch({"0", "1", "2"})>>)>>)>>)>>),
       Grp3(Opt(Ch({"-"} \cup WhiteSpace))),
       NLA(Lit(<<"0", "0">>)), Rep(D, 2, 2),
       Ref3,
       NLA(Lit(<<"0", "0", "0", "0">>)), Rep(D, 4, 4),
       WB>>)

\* /\b(?:4[0-9]{12}(?:[0-9]{3})?|5[1-5][0-9]{14}|3[47][0-9]{13}|6(?:011|5[0-9]{2})[0-9]{12})\b/g
CREDIT_CARD_REGEX ==
  Sq(<<WB,
       Alt(<<Sq(<<Ch({"4"}), Rep(D, 12, 12), Opt(Rep(D, 3, 3))>>),
             Sq(<<Ch({"5"}), Ch({"1", "2", "3", "4", "5"}), Rep(D, 14, 14)>>),
             Sq(<<Ch({"3"}), Ch({"4", "7"}), Rep(D, 13, 13)>>),
             Sq(<<Ch({"6"}), Alt(<<Lit(<<"0", "1", "1">>), Sq(<<Ch({"5"}), Rep(D, 2, 2)>>)>>), Rep(D, 12, 12)>>)>>),
       WB>>)

\* /\b(?:account\s*(?:number|#|no\.?)?:?\s*)?([0-9]{8,17})\b/gi
ACCOUNT_NUMBER_REGEX ==
  Sq(<<WB,
       Opt(Sq(<<LitI(<<"a", "c", "c", "o", "u", "n", "t">>), Star(Ws),
                Opt(Alt(<<LitI(<<"n", "u", "m", "b", "e", "r">>), Ch({"#"}), Sq(<<LitI(<<"n", "o">>), Opt(Ch({"."}))>>)>>)),
                Opt(Ch({":"})), Star(Ws)>>)),
       Rep(D, 8, 17),
       WB>>)

\* /\b(?:\+?1[-.\s]?)?(?:\(?[2-9][0-9]{2}\)?[-.\s]?)?[2-9][0-9]{2}[-.\s]?[0-9]{4}\b/g
PHONE_REGEX ==
  Sq(<<WB,
       Opt(Sq(<<Opt(Ch({"+"})), Ch({"1"}), Opt(Sep)>>)),
       Opt(Sq(<<Opt(Ch({"("})), D2to9, Rep(D, 2, 2), Opt(Ch({")"})), Opt(Sep)>>)),
       D2to9, Rep(D, 2, 2), Opt(Sep), Rep(D, 4, 4),
       WB>>)

\* /\b[A-Za-z0-9._%+-]+@[A-Za-z0-9.-]+\.[A-Z|a-z]{2,}\b/g
EMAIL_REGEX ==
  Sq(<<WB,
       Plus(Ch(AlphaNum \cup {".", "_", "%", "+", "-"})), Ch({"@"}),
       Plus(Ch(AlphaNum \cup {".", "-"})), Ch({"."}),
       Rep(Ch(LowerLetters \cup UpperLetters \cup {"|"}), 2, -1),
       WB>>)

\* /\b(?:0?[1-9]|1[0-2])[-/](?:0?[1-9]|[12][0-9]|3[01])[-/](?:19|20)\d{2}\b/g
DOB_REGEX ==
  Sq(<<WB,
       Alt(<<Sq(<<Opt(Ch({"0"})), Ch(Digits \ {"0"})>>), Sq(<<Ch({"1"}), Ch({"0", "1", "2"})>>)>>),
       Ch({"-", "/"}),
       Alt(<<Sq(<<Opt(Ch({"0"})), Ch(Digits \ {"0"})>>), Sq(<<Ch({"1", "2"}), D>>), Sq(<<Ch({"3"}), Ch({"0", "1"})>>)>>),
       Ch({"-", "/"}),
       Alt(<<Lit(<<"1", "9">>), Lit(<<"2", "0">>)>>), Rep(D, 2, 2),
       WB>>)

PII_PATTERNS ==
  << [type |-> "SSN", regex |-> SSN_REGEX, confidence |-> 95],
     [type |-> "CREDIT_CARD", regex |-> CREDIT_CARD_REGEX, confidence |-> 95],
     [type |-> "ACCOUNT_NUMBER", regex |-> ACCOUNT_NUMBER_REGEX, confidence |-> 80],
     [type |-> "PHONE", regex |-> PHONE_REGEX, confidence |-> 85],
     [type |-> "EMAIL", regex |-> EMAIL_REGEX, confidence |-> 95],
     [type |-> "DOB", regex |-> DOB_REGEX, confidence |-> 70] >>

EntityTypes == {"SSN", "ACCOUNT_NUMBER", "CREDIT_CARD", "NAME", "ADDRESS", "PHONE", "EMAIL", "DOB", "CUSTOM"}

\* Array.prototype.includes on a types array
Includes(arr, x) == \E j \in 1..Len(arr) : arr[j] = x

\* The context of an entity, kept as the template the code builds it from and
\* the text it embeds in the template; contextText spells the string.
\*   "undefined"     - no context property
\*   "pattern"       - detector.ts:425
\*   "ai"            - detector.ts:442
\*   "occurrence"    - detector.ts:299, embeds the value of the entity scanned for
\*   "variation"     - detector.ts:394, embeds the relatedTo of the reply
\*   "retrospective" - detector.ts:394, relatedTo absent or empty
\*   "vault"         - detect-pii/route.ts:109
\*   "reported"      - the context property of a reply item (detector.ts:192), embedded as it is
Context(template, embedded) == [template |-> template, embedded |-> embedded]

contextText(context) ==
  CASE context.template = "pattern" -> <<"S", "t", "a", "n", "d", "a", "r", "d", " ", "f", "o", "r", "m", "a", "t", " ", "d", "e", "t", "e", "c", "t", "e", "d", " ", "b", "y", " ", "p", "a", "t", "t", "e", "r", "n", " ", "m", "a", "t", "c", "h", "i", "n", "g">>
    [] context.template = "ai" -> <<"D", "e", "t", "e", "c", "t", "e", "d", " ", "b", "y", " ", "A", "I", " ", "a", "n", "a", "l", "y", "s", "i", "s">>
    [] context.template = "occurrence" -> <<"A", "d", "d", "i", "t", "i", "o", "n", "a", "l", " ", "o", "c", "c", "u", "r", "r", "e", "n", "c", "e", " ", "o", "f", " ", "\"">> \o context.embedded \o <<"\"", " ", "(", "r", "e", "t", "r", "o", "s", "p", "e", "c", "t", "i", "v", "e", " ", "s", "c", "a", "n", ")">>
    [] context.template = "variation" -> <<"V", "a", "r", "i", "a", "t", "i", "o", "n", " ", "o", "f", " ", "\"">> \o context.embedded \o <<"\"", " ", "(", "A", "I", " ", "r", "e", "t", "r", "o", "s", "p", "e", "c", "t", "i", "v", "e", ")">>
    [] context.template = "retrospective" -> <<"A", "I", " ", "r", "e", "t", "r", "o", "s", "p", "e", "c", "t", "i", "v", "e", " ", "a", "n", "a", "l", "y", "s", "i", "s">>
    [] context.template = "vault" -> <<"F", "o", "u", "n", "d", " ", "v", "i", "a", " ", "v", "a", "u", "l", "t", " ", "s", "e", "m", "a", "n", "t", "i", "c", " ", "s", "e", "a", "r", "c", "h">>
    [] context.template = "reported" -> context.embedded

\* an entity (PatternMatch / EnhancedPatternMatch)
Entity(t, v, s, e, c, ctx) == [type |-> t, value |-> v, startIndex |-> s, endIndex |-> e, confidence |-> c, context |-> ctx]

\* the while ((match = pattern.regex.exec(text)) !== null) loop of one pattern
RECURSIVE execAll(_, _, _)
execAll(pattern, s, lastIndex) ==
  LET m == execFrom(pattern.regex, s, lastIndex)
  IN  IF ~m.found THEN <<>>
      ELSE <<Entity(pattern.type, SubSeq(s, m.index + 1, m.end), m.index, m.end, pattern.confidence, Context("undefined", <<>>))>>
           \o execAll(pattern, s, m.end)

\* [...matches].sort((a, b) => a.startIndex - b.startIndex): a stable sort
RECURSIVE sortByStart(_)
sortByStart(ms) ==
  IF ms = <<>> THEN <<>>
  ELSE LET front == sortByStart(SubSeq(ms, 1, Len(ms) - 1))
           x == ms[Len(ms)]
           n == Cardinality({j \in 1..Len(front) : front[j].startIndex <= x.startIndex})
       IN  SubSeq(front, 1, n) \o <<x>> \o SubSeq(front, n + 1, Len(front))

\* the loop with touching spans taken as overlapping (<= for < at line 89)
RECURSIVE dedupLoopTouching(_, _, _)
dedupLoopTouching(sorted, i, res) ==
  IF i > Len(sorted) THEN res
  ELSE LET current == sorted[i]
           last == res[Len(res)]
       IN  IF current.startIndex <= last.endIndex
           THEN dedupLoopTouching(sorted, i + 1, IF current.confidence > last.confidence THEN [res EXCEPT ![Len(res)] = current] ELSE res)
           ELSE dedupLoopTouching(sorted, i + 1, Append(res, current))

RECURSIVE dedupLoop(_, _, _)
dedupLoop(sorted, i, res) ==
  IF i > Len(sorted) THEN res
  ELSE LET current == sorted[i]
           last == res[Len(res)]
       IN  IF current.startIndex < last.endIndex
           THEN dedupLoop(sorted, i + 1, IF current.confidence > last.confidence THEN [res EXCEPT ![Len(res)] = current] ELSE res)
           ELSE dedupLoop(sorted, i + 1, Append(res, current))

deduplicateMatches(matches) ==
  IF matches = <<>> THEN <<>>
  ELSE LET sorted == sortByStart(matches) IN dedupLoop(sorted, 2, <<sorted[1]>>)

RECURSIVE patternMatches(_, _, _)
patternMatches(patterns, j, s) == IF j > Len(patterns) THEN <<>> ELSE execAll(patterns[j], s, 0) \o patternMatches(patterns, j + 1, s)

detectPIIWithRegex(s, ts) ==
  LET patterns == IF ts # Undefined THEN SelectSeq(PII_PATTERNS, LAMBDA p : Includes(ts, p.type)) ELSE PII_PATTERNS
  IN  deduplicateMatches(patternMatches(patterns, 1, s))

(***************************************************************************)
(* detector.ts                                                             *)
(***************************************************************************)
detectStructuredPII(s, ts) == detectPIIWithRegex(s, ts)

\* A reply of client.llm.chat, as the detectors see it:
\*   kind "error"  - the call rejects (service error, timeout)
\*   kind "text"   - the content is no JSON
\*   kind "object" - the content is JSON but no array
\*   kind "array"  - the content is a JSON array of finding objects, items
\*   kind "none"   - no call was issued: the detector returned before
\*                   client.llm.chat, or createCaseDevClient threw inside its try
\* A finding is a record type, value, startIndex, endIndex, confidence,
\* context, relatedTo; value Undefined is a finding without a value property,
\* confidence 0 one whose confidence is absent (or 0), relatedTo <<>> one
\* whose relatedTo is absent (or empty): falsy for e.confidence || default and
\* for e.relatedTo ? ... : ...
Reply(kind, items) == [kind |-> kind, items |-> items]
Parses(resp) == resp.kind = "array"

CONTEXTUAL_TYPES == <<"SSN", "ACCOUNT_NUMBER", "CREDIT_CARD", "PHONE", "DOB">>
UNSTRUCTURED_TYPES == <<"NAME", "ADDRESS">>

\* types?.filter(t => list.includes(t)) || list
typesOrDefault(ts, list) == IF ts # Undefined THEN SelectSeq(ts, LAMBDA t : Includes(list, t)) ELSE list

\* whether detectContextualPII reaches client.llm.chat once it holds a client
contextualAlwaysCalls(ts) == TRUE

contextualCalls(ts) == typesOrDefault(ts, CONTEXTUAL_TYPES) # <<>>

detectContextualPII(s, alreadyFound, ts, resp) ==
  IF ~contextualCalls(ts) THEN <<>>
  ELSE IF ~Parses(resp) THEN <<>>
  ELSE [j \in 1..Len(resp.items) |->
          LET e == resp.items[j] IN Entity(e.type, e.value, e.startIndex, e.endIndex, 75, e.context)]

\* whether detectUnstructuredPII reaches createCaseDevClient
unstructuredCalls(ts) == typesOrDefault(ts, UNSTRUCTURED_TYPES) # <<>>

detectUnstructuredPII(s, ts, resp) ==
  LET unstructuredTypes == typesOrDefault(ts, UNSTRUCTURED_TYPES)
  IN  IF unstructuredTypes = <<>> THEN <<>>
      ELSE IF ~Parses(resp) THEN <<>>
      ELSE LET kept == SelectSeq(resp.items, LAMBDA e : Includes(unstructuredTypes, e.type))
           IN  [j \in 1..Len(kept) |->
                  LET e == kept[j]
                  IN  Entity(e.type, e.value, e.startIndex, e.endIndex, IF e.confidence # 0 THEN e.confidence ELSE 85, Context("undefined", <<>>))]

\* the uniqueValues Map of findAllOccurrences as a sequence of [key, entity] in
\* insertion order; Map.set on a present key keeps the key's place
RECURSIVE uniqueValues(_, _, _)
uniqueValues(entities, j, map) ==
  IF j > Len(entities) THEN map
  ELSE LET entity == entities[j]
           key == toLowerCase(entity.value)
           at == {m \in 1..Len(map) : map[m].key = key}
       IN  IF at = {} THEN uniqueValues(entities, j + 1, Append(map, [key |-> key, entity |-> entity]))
           ELSE LET m == CHOOSE m \in at : TRUE
                IN  IF entity.confidence > map[m].entity.confidence
                    THEN uniqueValues(entities, j + 1, [map EXCEPT ![m].entity = entity])
                    ELSE uniqueValues(entities, j + 1, map)

\* the while (searchIndex < lowerText.length) loop for one unique value
RECURSIVE scanOccurrences(_, _, _, _, _, _)
scanOccurrences(s, lowerText, entities, lowerValue, entity, searchIndex) ==
  IF ~(searchIndex < Len(lowerText)) THEN <<>>
  ELSE LET foundIndex == indexOf(lowerText, lowerValue, searchIndex)
           endIndex == foundIndex + Len(entity.value)
           alreadyFound == \E j \in 1..Len(entities) : entities[j].startIndex = foundIndex /\ entities[j].endIndex = endIndex
       IN  IF foundIndex = -1 THEN <<>>
           ELSE (IF alreadyFound THEN <<>>
                 ELSE <<Entity(entity.type, substring(s, foundIndex, endIndex), foundIndex, endIndex, entity.confidence, Context("occurrence", entity.value))>>)
                \o scanOccurrences(s, lowerText, entities, lowerValue, entity, foundIndex + 1)

RECURSIVE scanAll(_, _, _, _, _)
scanAll(s, lowerText, entities, map, m) ==
  IF m > Len(map) THEN <<>>
  ELSE scanOccurrences(s, lowerText, entities, map[m].key, map[m].entity, 0) \o scanAll(s, lowerText, entities, map, m + 1)

\* entity.value.toLowerCase() throws a TypeError when an entity has no value
findAllOccurrencesThrows(entities) == \E j \in 1..Len(entities) : entities[j].value = Undefined

\* defined when findAllOccurrencesThrows(entities) is false
findAllOccurrences(s, entities) == scanAll(s, toLowerCase(s), entities, uniqueValues(entities, 1, <<>>), 1)

\* whether findEntityVariations reaches createCaseDevClient
variationsCalls(entities) == \E j \in 1..Len(entities) : entities[j].type \in {"NAME", "ADDRESS"}

findEntityVariations(s, entities, resp) ==
  IF ~variationsCalls(entities) THEN <<>>
  ELSE IF ~Parses(resp) THEN <<>>
  ELSE [j \in 1..Len(resp.items) |->
          LET e == resp.items[j]
          IN  Entity(e.type, e.value, e.startIndex, e.endIndex, IF e.confidence # 0 THEN e.confidence ELSE 80,
                     IF e.relatedTo # <<>> THEN Context("variation", e.relatedTo) ELSE Context("retrospective", <<>>))]

\* the three-clause overlap test of mergeResults and mergeDetectionResults
overlaps(match, e) ==
  \/ (match.startIndex >= e.startIndex /\ match.startIndex < e.endIndex)
  \/ (match.endIndex > e.startIndex /\ match.endIndex <= e.endIndex)
  \/ (match.startIndex <= e.startIndex /\ match.endIndex >= e.endIndex)

\* result.findIndex(e => overlaps(match, e)), 1-based; 0 for -1
findOverlappingIndex(res, match) ==
  LET hits == {j \in 1..Len(res) : overlaps(match, res[j])}
  IN  IF hits = {} THEN 0 ELSE CHOOSE j \in hits : \A h \in hits : j <= h

\* the loop body without the replacement of a weaker accepted entity
mergeStepKeepsAccepted(res, match) ==
  IF findOverlappingIndex(res, match) # 0 THEN res ELSE Append(res, match)

\* one iteration of the for (const match of sorted) loop
mergeStep(res, match) ==
  LET overlappingIndex == findOverlappingIndex(res, match)
  IN  IF overlappingIndex # 0
      THEN (IF match.confidence > res[overlappingIndex].confidence THEN [res EXCEPT ![overlappingIndex] = match] ELSE res)
      ELSE Append(res, match)

RECURSIVE mergeLoop(_, _, _)
mergeLoop(sorted, i, res) == IF i > Len(sorted) THEN res ELSE mergeLoop(sorted, i + 1, mergeStep(res, sorted[i]))

mergeResults(matches) == IF matches = <<>> THEN <<>> ELSE mergeLoop(sortByStart(matches), 1, <<>>)

withContext(ms, ctx) == [j \in 1..Len(ms) |-> [ms[j] EXCEPT !.context = ctx]]

(***************************************************************************)
(* Inputs of one detectAllPII invocation                                   *)
(***************************************************************************)
MaxTokens == 4
MaxFindings == 2

\* texts are made of these pieces: a seven-digit phone number, a zero, a space
Tokens == {<<"5", "5", "5", "1", "2", "3", "4">>, <<"0">>, <<" ">>}
Texts == {Concat(ts) : ts \in UNION {[1..n -> Tokens] : n \in 1..MaxTokens}}

\* the types argument: omitted, or one of these lists
TypeFilters == {Undefined, <<"NAME">>, <<"ACCOUNT_NUMBER", "PHONE">>}

Finding(t, v, s, e, c, ctx, rel) ==
  [type |-> t, value |-> v, startIndex |-> s, endIndex |-> e, confidence |-> c, context |-> ctx, relatedTo |-> rel]

\* what the model may report to the contextual prompt: a finding without a value
\* property, and one whose estimated offsets lie outside the text
ContextualFindings ==
  { Finding("SSN", Undefined, 0, 3, 0, Context("undefined", <<>>), <<>>),
    Finding("SSN", <<"1", "2", "3", "4">>, 45, 49, 0, Context("reported", <<"w", "o", "r", "d", "s">>), <<>>) }

\* what it may report to the names-and-addresses prompt: a name without a
\* confidence, a type that was not asked for, a confidence of 1.5
UnstructuredFindings ==
  { Finding("NAME", <<"B", "o", "b">>, 0, 3, 0, Context("undefined", <<>>), <<>>),
    Finding("PHONE", <<"5", "5", "5">>, 0, 3, 99, Context("undefined", <<>>), <<>>),
    Finding("ADDRESS", <<"0">>, 0, 1, 150, Context("undefined", <<>>), <<>>) }

\* what it may report to the variations prompt: end before start and the
\* entity it is a variation of, and a one-character span with a reported
\* confidence and no relatedTo
VariationFindings ==
  { Finding("NAME", <<"M", "r">>, 5, 2, 90, Context("undefined", <<>>), <<"B", "o", "b">>),
    Finding("NAME", <<"5">>, 5, 6, 92, Context("undefined", <<>>), <<>>) }

\* the contextual prompt as POST /api/detect-pii reaches it: the model may also
\* report a context that holds the words the route looks for
RouteContextualFindings ==
  ContextualFindings \cup {Finding("SSN", <<"1", "2", "3", "4">>, 45, 49, 0, Context("reported", <<"c", "o", "n", "f", "i", "r", "m", "e", "d", " ", "b", "y", " ", "v", "a", "u", "l", "t", " ", "s", "e", "m", "a", "n", "t", "i", "c", " ", "s", "e", "a", "r", "c", "h">>), <<>>)}

\* the variations prompt as POST /api/detect-pii reaches it: a one-character
\* span with a reported confidence, the same naming a related entity in the
\* words the route looks for, and a finding without a value property
RouteVariationFindings ==
    { Finding("NAME", <<"5">>, 5, 6, 92, Context("undefined", <<>>), <<>>),
      Finding("NAME", <<"5">>, 5, 6, 92, Context("undefined", <<>>), <<"t", "h", "e", " ", "v", "a", "u", "l", "t", " ", "s", "e", "m", "a", "n", "t", "i", "c", " ", "s", "e", "a", "r", "c", "h">>),
      Finding("NAME", Undefined, 5, 6, 0, Context("undefined", <<>>), <<>>) }

Arrays(pool) == UNION {[1..n -> pool] : n \in 0..MaxFindings}
Replies(pool) == {Reply(k, <<>>) : k \in {"error", "text", "object"}} \cup {Reply("array", items) : items \in Arrays(pool)}

(***************************************************************************)
(* detectAllPII (detector.ts:413-464), one action per stretch between two  *)
(* awaits                                                                  *)
(***************************************************************************)
Init ==
  /\ text \in Texts
  /\ types \in TypeFilters
  /\ pc = "start"
  /\ regexMatches = <<>>
  /\ allMatches = <<>>
  /\ mergedSoFar = <<>>
  /\ additionalOccurrences = <<>>
  /\ finalMatches = <<>>
  /\ result = <<>>
  /\ calls = <<>>
  /\ unreachable = TRUE
  /\ apiKey \in BOOLEAN
  /\ CacheUntouched
  /\ MaskIdle
  /\ RateIdle
  /\ AppIdle

\* lines 414-434: the regex pass, up to the await of detectContextualPII
Pass1 ==
  /\ pc = "start"
  /\ regexMatches' = detectStructuredPII(text, types)
  /\ allMatches' = withContext(regexMatches', Context("pattern", <<>>))
  /\ pc' = "contextual"
  /\ UNCHANGED <<text, types, mergedSoFar, additionalOccurrences, finalMatches, result, calls, unreachable, apiKey>>
  /\ UNCHANGED <<cacheVars, svcVars>>

\* lines 434-441: detectContextualPII resolves.  Without the key
\* createCaseDevClient throws (lines 143-144) and the catch returns [].
Pass2 ==
  /\ pc = "contextual"
  /\ \E resp \in (IF apiKey /\ contextualCalls(types)
                   THEN Replies(IF route.pc = "detecting" THEN RouteContextualFindings ELSE ContextualFindings)
                   ELSE {Reply("none", <<>>)}) :
       /\ allMatches' = allMatches \o detectContextualPII(text, regexMatches, types, resp)
       /\ calls' = IF apiKey /\ contextualCalls(types) THEN Append(calls, "contextual") ELSE calls
       /\ unreachable' = (unreachable /\ resp.kind \in {"error", "none"})
  /\ pc' = "unstructured"
  /\ UNCHANGED <<text, types, regexMatches, mergedSoFar, additionalOccurrences, finalMatches, result, apiKey>>
  /\ UNCHANGED <<cacheVars, svcVars>>

\* lines 441-457: detectUnstructuredPII resolves, first merge, occurrence
\* scan.  Without the key createCaseDevClient throws (lines 209-210) and the
\* catch returns [].
Pass2b ==
  /\ pc = "unstructured"
  /\ \E resp \in (IF apiKey /\ unstructuredCalls(types) THEN Replies(UnstructuredFindings) ELSE {Reply("none", <<>>)}) :
       /\ allMatches' = allMatches \o withContext(detectUnstructuredPII(text, types, resp), Context("ai", <<>>))
       /\ calls' = IF apiKey /\ unstructuredCalls(types) THEN Append(calls, "unstructured") ELSE calls
       /\ unreachable' = (unreachable /\ resp.kind \in {"error", "none"})
  /\ mergedSoFar' = mergeResults(allMatches')
  /\ IF findAllOccurrencesThrows(mergedSoFar')
     THEN pc' = "rejected" /\ additionalOccurrences' = <<>>
     ELSE pc' = "variations" /\ additionalOccurrences' = findAllOccurrences(text, mergedSoFar')
  /\ UNCHANGED <<text, types, regexMatches, finalMatches, result, apiKey>>
  /\ UNCHANGED <<cacheVars, svcVars>>

\* lines 457-463: findEntityVariations resolves, final merge.  Without the
\* key createCaseDevClient throws (lines 324-325) and the catch returns [].
Pass3 ==
  /\ pc = "variations"
  /\ \E resp \in (IF apiKey /\ variationsCalls(mergedSoFar)
                   THEN Replies(IF route.pc = "detecting" THEN RouteVariationFindings ELSE VariationFindings)
                   ELSE {Reply("none", <<>>)}) :
       /\ finalMatches' = mergedSoFar \o additionalOccurrences \o findEntityVariations(text, mergedSoFar, resp)
       /\ result' = mergeResults(finalMatches')
       /\ calls' = IF apiKey /\ variationsCalls(mergedSoFar) THEN Append(calls, "variations") ELSE calls
       /\ unreachable' = (unreachable /\ resp.kind \in {"error", "none"})
  /\ pc' = "done"
  /\ UNCHANGED <<text, types, regexMatches, allMatches, mergedSoFar, additionalOccurrences, apiKey>>
  /\ UNCHANGED <<cacheVars, svcVars>>

Next == Pass1 \/ Pass2 \/ Pass2b \/ Pass3

Spec == Init /\ [][Next]_vars

(***************************************************************************)
(* Properties of detectAllPII                                              *)
(***************************************************************************)
\* the half-open spans [start, end) of two entities share an offset
Intersects(a, b) == Max(a.startIndex, b.startIndex) < Min(a.endIndex, b.endIndex)

\* C1: the entity list detectAllPII returns is pairwise non-overlapping, for
\* every text, type filter and reply of the generative service.
C1_NonOverlap ==
  pc = "done" => \A i, j \in 1..Len(result) : i # j => ~Intersects(result[i], result[j])

\* C2: detectAllPII never rejects because of an enhancement pass, whatever the
\* generative service replies (error, no JSON, no array, items lacking fields).
C2_NeverFails == pc # "rejected"

SameHit(a, b) == a.type = b.type /\ a.value = b.value /\ a.startIndex = b.startIndex /\ a.endIndex = b.endIndex /\ a.confidence = b.confidence

\* C3: when every call to the generative service fails, detectAllPII returns
\* every hit of detectPIIWithRegex with type, value, span and confidence unchanged.
C3_Degradation ==
  (pc = "done" /\ unreachable) =>
     \A j \in 1..Len(regexMatches) : \E k \in 1..Len(result) : SameHit(result[k], regexMatches[j])

\* C4: merging is idempotent: merging the merge of the candidate list gives the
\* same entities in the same order.
C4_MergeIdempotent ==
  pc = "done" => mergeResults(mergeResults(finalMatches)) = mergeResults(finalMatches)

\* C5: every returned entity locates its value: 0 <= start < end <= len(text)
\* and value is the substring text[start, end).
C5_SpansLocateValues ==
  pc = "done" =>
     \A k \in 1..Len(result) :
        /\ 0 <= result[k].startIndex
        /\ result[k].startIndex < result[k].endIndex
        /\ result[k].endIndex <= Len(text)
        /\ result[k].value = SubSeq(text, result[k].startIndex + 1, result[k].endIndex)

(***************************************************************************)
(* findAllOccurrences on its own (detector.ts:265-308): the text is drawn  *)
(* character by character, the entity set holds one entity lying on an     *)
(* occurrence of its value                                                 *)
(***************************************************************************)
MaxScanLen == 4
ScanAlphabet == {"a", "A", "b", "U+0130"}
ScanTexts == UNION {[1..n -> ScanAlphabet] : n \in 1..MaxScanLen}

InitScan ==
  /\ text \in ScanTexts
  /\ \E s \in 0..MaxScanLen, e \in 1..MaxScanLen :
        /\ s < e /\ e <= Len(text)
        /\ mergedSoFar = <<Entity("NAME", SubSeq(text, s + 1, e), s, e, 85, Context("ai", <<>>))>>
  /\ pc = "scan"
  /\ types = Undefined
  /\ regexMatches = <<>>
  /\ allMatches = <<>>
  /\ additionalOccurrences = <<>>
  /\ finalMatches = <<>>
  /\ result = <<>>
  /\ calls = <<>>
  /\ unreachable = TRUE
  /\ apiKey = TRUE
  /\ CacheUntouched
  /\ MaskIdle
  /\ RateIdle
  /\ AppIdle

Scan ==
  /\ pc = "scan"
  /\ additionalOccurrences' = findAllOccurrences(text, mergedSoFar)
  /\ pc' = "scanned"
  /\ UNCHANGED <<text, types, regexMatches, allMatches, mergedSoFar, finalMatches, result, calls, unreachable, apiKey>>
  /\ UNCHANGED <<cacheVars, svcVars>>

SpecScan == InitScan /\ [][Scan]_vars

\* the value v occurs in s at offset i, compared case-insensitively
OccursAt(s, v, i) == i + Len(v) <= Len(s) /\ \A k \in 1..Len(v) : toLowerChar(s[i + k]) = toLowerChar(v[k])
OccurrenceSpans(s, v) == {<<i, i + Len(v)>> : i \in {i \in 0..Len(s) : OccursAt(s, v, i)}}
SpansOf(ms) == {<<ms[j].startIndex, ms[j].endIndex>> : j \in 1..Len(ms)}
Disjoint(spans) == \A a, b \in spans : a # b => ~(Max(a[1], b[1]) < Min(a[2], b[2]))

\* C6: when the value occurs N times at non-overlapping positions and one
\* occurrence is the entity given to the scan, the new entities together with it
\* are exactly the N spans, each new one with the entity's type and confidence.
C6_RetrospectiveRecall ==
  (pc = "scanned" /\ Disjoint(OccurrenceSpans(text, mergedSoFar[1].value))) =>
     /\ SpansOf(additionalOccurrences) \cup SpansOf(mergedSoFar) = OccurrenceSpans(text, mergedSoFar[1].value)
     /\ Len(additionalOccurrences) + 1 = Cardinality(OccurrenceSpans(text, mergedSoFar[1].value))
     /\ \A j \in 1..Len(additionalOccurrences) :
           additionalOccurrences[j].type = mergedSoFar[1].type /\ additionalOccurrences[j].confidence = mergedSoFar[1].confidence

\* the same, for texts whose lower-case form has the length of the text
C6_RecallSameLength ==
  Len(toLowerCase(text)) = Len(text) => C6_RetrospectiveRecall

(***************************************************************************)
(* cache.ts: the session cache.  The model assumes a browser whose session *)
(* storage is available and not full, so that setItem succeeds.            *)
(***************************************************************************)
MAX_CACHE_SIZE == 200

DigitChars == <<"0", "1", "2", "3", "4", "5", "6", "7", "8", "9">>
HexChars == DigitChars \o <<"a", "b", "c", "d", "e", "f">>
Punctuation == <<" ", "(", ")", "*", "-", ".", "/", "@", "_">>
PunctuationCodes == <<32, 40, 41, 42, 45, 46, 47, 64, 95>>

\* String.prototype.charCodeAt, for the characters the model spells
charCodeAt(c) ==
  IF c \in Digits THEN 47 + (CHOOSE j \in 1..10 : DigitChars[j] = c)
  ELSE IF c \in LowerLetters THEN 96 + (CHOOSE j \in 1..26 : LowerAlphabet[j] = c)
  ELSE IF c \in UpperLetters THEN 64 + (CHOOSE j \in 1..26 : UpperAlphabet[j] = c)
  ELSE IF c = "U+0130" THEN 304
  ELSE IF c = "U+0307" THEN 775
  ELSE PunctuationCodes[CHOOSE j \in 1..Len(Punctuation) : Punctuation[j] = c]

\* Number.prototype.toString(16) and the decimal rendering of a template
\* literal, for a non-negative integer
RECURSIVE toString16(_)
toString16(n) == IF n < 16 THEN <<HexChars[n + 1]>> ELSE toString16(n \div 16) \o <<HexChars[(n % 16) + 1]>>

RECURSIVE toString10(_)
toString10(n) == IF n < 10 THEN <<DigitChars[n + 1]>> ELSE toString10(n \div 10) \o <<DigitChars[(n % 10) + 1]>>

\* The 32-bit integer hash of simpleHash is kept as its bit pattern in two
\* 16-bit halves.  One round of  hash = ((hash << 5) - hash) + char;
\* hash = hash & hash  multiplies the pattern by 31, adds the code unit and
\* keeps the low 32 bits.
hashRound(h, code) ==
  LET lo == 31 * h.lo + code
      hi == 31 * h.hi + (lo \div 65536)
  IN  [hi |-> hi % 65536, lo |-> lo % 65536]

RECURSIVE hashLoop(_, _, _)
hashLoop(str, i, h) == IF i > Len(str) THEN h ELSE hashLoop(str, i + 1, hashRound(h, charCodeAt(str[i])))

\* Math.abs(hash): the pattern of a negative hash (top bit set) is negated
mathAbs(h) ==
  IF h.hi < 32768 THEN h
  ELSE IF h.lo = 0 THEN [hi |-> 65536 - h.hi, lo |-> 0]
  ELSE [hi |-> 65535 - h.hi, lo |-> 65536 - h.lo]

\* toString(16) of a value given in halves
halvesToString16(h) ==
  IF h.hi = 0 THEN toString16(h.lo)
  ELSE LET low == toString16(h.lo) IN toString16(h.hi) \o SubSeq(<<"0", "0", "0">>, 1, 4 - Len(low)) \o low

simpleHash(str) ==
  LET hash == hashLoop(str, 1, [hi |-> 0, lo |-> 0])
      prefix == IF Len(str) > 0 THEN toString16(charCodeAt(str[1])) ELSE <<"0", "0">>
      suffix == IF Len(str) > 1 THEN toString16(charCodeAt(str[Len(str)])) ELSE <<"0", "0">>
  IN  prefix \o halvesToString16(mathAbs(hash)) \o suffix \o toString10(Len(str))

\* What the usageCount of an entry can be: a number; undefined, on a record
\* imported without the property; NaN, once += 1 ran on undefined; null, which
\* is what JSON.stringify writes for NaN and JSON.parse reads back.
Num(n) == [is |-> "number", n |-> n]
NaN == [is |-> "NaN", n |-> 0]
JsonNull == [is |-> "null", n |-> 0]
Missing == [is |-> "undefined", n |-> 0]

\* ToNumber: null is 0, undefined is NaN
ToNumber(x) == CASE x.is = "number" -> x [] x.is = "null" -> Num(0) [] OTHER -> NaN

\* x + 1, b - a, a !== b and a > b on such values
plusOne(x) == IF ToNumber(x) = NaN THEN NaN ELSE Num(ToNumber(x).n + 1)
minus(b, a) ==
  LET x == ToNumber(b)
      y == ToNumber(a)
  IN  IF x = NaN \/ y = NaN THEN NaN ELSE Num(x.n - y.n)
strictlyUnequal(a, b) == a = NaN \/ a # b
greaterThan(a, b) == ToNumber(a) # NaN /\ ToNumber(b) # NaN /\ ToNumber(a).n > ToNumber(b).n

\* A CachedRedaction.  createdAt is the instant the ISO string denotes, in
\* milliseconds; a string property an imported record lacks is Undefined, a
\* usageCount it lacks is Missing.
CachedRedaction(id, valueHash, maskedValue, type, createdAt, usageCount, valueLength) ==
  [id |-> id, valueHash |-> valueHash, maskedValue |-> maskedValue, type |-> type,
   createdAt |-> createdAt, usageCount |-> usageCount, valueLength |-> valueLength]

\* crypto.randomUUID(): the n-th identifier handed out; no two are equal
randomUUID(n) == <<"u">> \o toString10(n)

\* the comparator of saveCachedRedactions, usageCount descending, then
\* createdAt descending, as Array.prototype.sort reads it: a NaN it returns
\* counts as 0
compareRedactions(a, b) ==
  IF strictlyUnequal(b.usageCount, a.usageCount)
  THEN LET difference == minus(b.usageCount, a.usageCount)
       IN  IF difference = NaN THEN 0 ELSE difference.n
  ELSE b.createdAt - a.createdAt

\* the pairs the comparator reads of the entries of an array
sortKeys(xs) == {[usageCount |-> xs[k].usageCount, createdAt |-> xs[k].createdAt] : k \in 1..Len(xs)}

\* The comparator is a consistent comparator for the entries of xs: it puts
\* them in a total preorder.  It is one whenever every usageCount is a number;
\* an undefined or NaN usageCount compares equal to every other and can break
\* transitivity.  Array.prototype.sort fixes the order of its result only for
\* a consistent comparator.
consistentComparator(xs) ==
  (\E k \in 1..Len(xs) : xs[k].usageCount.is # "number") =>
     \E keys \in {sortKeys(xs)} :
        /\ \A a, b \in keys : (compareRedactions(a, b) < 0) <=> (compareRedactions(b, a) > 0)
        /\ \A a, b, c \in keys :
              (compareRedactions(a, b) <= 0 /\ compareRedactions(b, c) <= 0) => compareRedactions(a, c) <= 0

\* Array.prototype.sort with that comparator, where it is consistent for xs.  The
\* comparator orders by the pair (usageCount, createdAt) and the sort is
\* stable, so the result is, group after group in comparator order, the
\* elements the comparator calls equal, in their original order.  The
\* comparator reads nothing but the pair, so the group that comes first is
\* found among the pairs that occur.
RECURSIVE sortRedactions(_)
sortRedactions(xs) ==
  IF xs = <<>> THEN <<>>
  ELSE LET keys == sortKeys(xs)
           first == CHOOSE a \in keys : \A b \in keys : compareRedactions(a, b) <= 0
       IN  SelectSeq(xs, LAMBDA r : compareRedactions(first, r) = 0)
           \o sortRedactions(SelectSeq(xs, LAMBDA r : compareRedactions(first, r) # 0))

\* saveCachedRedactions without the slice
saveUntrimmed(redactions) == sortRedactions(redactions)

\* JSON.stringify of an entry and JSON.parse of the text: NaN comes back as
\* null; a missing property stays missing
parsedBack(r) == IF r.usageCount = NaN THEN [r EXCEPT !.usageCount = JsonNull] ELSE r

\* sorted.slice(0, MAX_CACHE_SIZE) stored under CACHE_KEY, as
\* getCachedRedactions reads it afterwards
sliceAndStore(sorted) ==
  LET trimmed == SubSeq(sorted, 1, Min(Len(sorted), MAX_CACHE_SIZE))
  IN  IF \A j \in 1..Len(trimmed) : trimmed[j].usageCount # NaN
      THEN trimmed
      ELSE [j \in 1..Len(trimmed) |-> parsedBack(trimmed[j])]

\* saveCachedRedactions where the comparator is consistent for the array: the
\* array stored afterwards
saveCachedRedactions(redactions) == sliceAndStore(sortRedactions(redactions))

\* The orders Array.prototype.sort may leave of xs when the comparator is not
\* consistent for it.  Which one is implementation-defined; an insertion sort
\* and a merge sort place an entry next to one they compared it with, so
\* that in what they leave every entry is followed by one the comparator
\* puts after it, or by one it calls equal that also came later in xs.  The
\* set holds every such order, the one a given engine leaves among them.
sortedOrders(xs) ==
  LET inOrder(j, k) ==
        \/ compareRedactions(xs[j], xs[k]) < 0
        \/ (compareRedactions(xs[j], xs[k]) = 0 /\ j < k)
      orders == {p \in Permutations(1..Len(xs)) : \A j \in 1..(Len(xs) - 1) : inOrder(p[j], p[j + 1])}
  IN  {[j \in 1..Len(xs) |-> xs[p[j]]] : p \in orders}

\* saveCachedRedactions: the arrays it may leave stored; one array when the
\* comparator is consistent for the array it sorts
savedOutcomes(redactions) ==
  IF consistentComparator(redactions) THEN {saveCachedRedactions(redactions)}
  ELSE {sliceAndStore(sorted) : sorted \in sortedOrders(redactions)}

\* cache.findIndex(r => r.valueHash === valueHash), 1-based; 0 for -1
findIndexByHash(c, valueHash) ==
  LET hits == {j \in 1..Len(c) : c[j].valueHash = valueHash}
  IN  IF hits = {} THEN 0 ELSE CHOOSE j \in hits : \A h \in hits : j <= h

\* the array addToCache hands to saveCachedRedactions; id and time are what
\* crypto.randomUUID() and new Date() return if they are called
addedToCache(c, value, maskedValue, type, id, time) ==
  LET valueHash == simpleHash(toLowerCase(value))
      existingIndex == findIndexByHash(c, valueHash)
  IN  IF existingIndex > 0
      THEN [c EXCEPT ![existingIndex].usageCount = plusOne(@), ![existingIndex].maskedValue = maskedValue]
      ELSE Append(c, CachedRedaction(id, valueHash, maskedValue, type, time, Num(1), Len(value)))

\* addToCache where the comparator is consistent: the stored array afterwards
addToCache(c, value, maskedValue, type, id, time) ==
  saveCachedRedactions(addedToCache(c, value, maskedValue, type, id, time))

\* the for (const item of items) loop of addMultipleToCache; n counts the
\* identifiers handed out, times[j] is the clock when item j is handled
RECURSIVE addMultipleLoop(_, _, _, _, _)
addMultipleLoop(c, items, j, n, times) ==
  IF j > Len(items) THEN [cache |-> c, nextId |-> n]
  ELSE LET item == items[j]
           valueHash == simpleHash(toLowerCase(item.value))
           existingIndex == findIndexByHash(c, valueHash)
       IN  IF existingIndex > 0
           THEN addMultipleLoop([c EXCEPT ![existingIndex].usageCount = plusOne(@), ![existingIndex].maskedValue = item.maskedValue], items, j + 1, n, times)
           ELSE addMultipleLoop(Append(c, CachedRedaction(randomUUID(n), valueHash, item.maskedValue, item.type, times[j], Num(1), Len(item.value))), items, j + 1, n + 1, times)

addMultipleToCache(c, items, n, times) ==
  LET done == addMultipleLoop(c, items, 1, n, times)
  IN  [cache |-> saveCachedRedactions(done.cache), nextId |-> done.nextId]

\* the array removeFromCache hands to saveCachedRedactions
removedFromCache(c, id) == SelectSeq(c, LAMBDA r : r.id # id)

removeFromCache(c, id) == saveCachedRedactions(removedFromCache(c, id))

\* clearCache removes the key; getCachedRedactions then returns []
clearCache(c) == <<>>

isValueCached(c, value) == findIndexByHash(c, simpleHash(toLowerCase(value))) > 0

\* A JSON text, by what JSON.parse makes of it: kind "malformed" (parse
\* throws), "object" (a value that is no array), or "array" with its items.
\* JSON.stringify writes the entries of an array in order and leaves out a
\* property that is undefined; JSON.parse gives the property back as missing.
JsonText(kind, items) == [kind |-> kind, items |-> items]
stringify(c) == JsonText("array", c)

exportCache(c) == stringify(c)

\* JavaScript truthiness of a string property and of a numeric property
truthyString(x) == x # Undefined /\ x # <<>>
truthyNumber(n) == n # 0

\* the validation of importCache (lines 276-278)
validImport(imported) ==
  \A j \in 1..Len(imported) :
     /\ truthyString(imported[j].valueHash)
     /\ truthyString(imported[j].maskedValue)
     /\ imported[j].type \notin {"undefined", ""}
     /\ truthyNumber(imported[j].valueLength)

\* importCache throws 'Invalid cache format'
importThrows(json) == json.kind # "array" \/ ~validImport(json.items)

\* one iteration of the for (const item of imported) loop of a merging import
mergeItem(merged, item) ==
  LET existingIndex == findIndexByHash(merged, item.valueHash)
  IN  IF existingIndex > 0
      THEN (IF greaterThan(item.usageCount, merged[existingIndex].usageCount) THEN [merged EXCEPT ![existingIndex] = item] ELSE merged)
      ELSE Append(merged, item)

\* the loop over imported[lo..hi], in order: first half, then second half.  The
\* loop never shortens the array; the length test has the first half's result
\* computed before the second half starts.
RECURSIVE mergeImported(_, _, _, _)
mergeImported(merged, imported, lo, hi) ==
  IF lo > hi THEN merged
  ELSE IF lo = hi THEN mergeItem(merged, imported[lo])
  ELSE LET mid == (lo + hi) \div 2
           firstHalf == mergeImported(merged, imported, lo, mid)
       IN  IF Len(firstHalf) >= Len(merged) THEN mergeImported(firstHalf, imported, mid + 1, hi) ELSE firstHalf

\* the array importCache hands to saveCachedRedactions when it does not throw
importedToCache(c, json, merge) ==
  IF merge THEN mergeImported(c, json.items, 1, Len(json.items)) ELSE json.items

\* importCache when it does not throw: the stored array afterwards
importCache(c, json, merge) == saveCachedRedactions(importedToCache(c, json, merge))

(***************************************************************************)
(* maskEntity (detector.ts:501-503) with the mask functions of             *)
(* patterns.ts:26-56 and the fallback of getMaskFunction                   *)
(***************************************************************************)
\* v.replace(/\D/g, '')
digitsOnly(v) == SelectSeq(v, LAMBDA c : c \in Digits)

\* `${v.split('@')[1]}`: the piece between the first and the second '@', the
\* word undefined when v holds no '@'
secondPiece(v) ==
  LET ats == {j \in 1..Len(v) : v[j] = "@"}
  IN  IF ats = {} THEN <<"u", "n", "d", "e", "f", "i", "n", "e", "d">>
      ELSE LET first == CHOOSE j \in ats : \A k \in ats : j <= k
               later == {j \in ats : j > first}
               stop == IF later = {} THEN Len(v) + 1 ELSE CHOOSE j \in later : \A k \in later : j <= k
           IN  SubSeq(v, first + 1, stop - 1)

\* every mask function but the one of DOB reads a property of the value
\* (v.replace, v.charAt, v.length): a TypeError when the value is undefined
maskEntityThrows(type, v) == v = Undefined /\ type # "DOB"

\* defined when maskEntityThrows(type, v) is false
maskEntity(type, v) ==
  CASE type = "SSN" -> <<"*", "*", "*", "-", "*", "*", "-">> \o sliceLast(digitsOnly(v), 4)
    [] type = "CREDIT_CARD" -> <<"*", "*", "*", "*", "-", "*", "*", "*", "*", "-", "*", "*", "*", "*", "-">> \o sliceLast(digitsOnly(v), 4)
    [] type = "ACCOUNT_NUMBER" -> <<"*", "*", "*", "*">> \o sliceLast(digitsOnly(v), 4)
    [] type = "PHONE" -> <<"(", "*", "*", "*", ")", " ", "*", "*", "*", "-">> \o sliceLast(digitsOnly(v), 4)
    [] type = "EMAIL" -> SubSeq(v, 1, Min(1, Len(v))) \o <<"*", "*", "*", "@">> \o secondPiece(v)
    [] type = "DOB" -> <<"*", "*", "/", "*", "*", "/", "*", "*", "*", "*">>
    [] OTHER -> [j \in 1..Len(v) |-> "*"]

(***************************************************************************)
(* Inputs of the cache operations                                          *)
(***************************************************************************)
MaxOps == 3
MaxClock == 1

\* the clock when an operation runs: it may have advanced by a millisecond
clockReadings(t) == t..Min(t + 1, MaxClock)

CacheInput(value, type) == [value |-> value, maskedValue |-> maskEntity(type, value), type |-> type]

\* values a user redacts, each cached with the mask maskEntity gives it
CacheInputs ==
  { CacheInput(<<"1", "2", "3", "4">>, "SSN"),
    CacheInput(<<"B", "o", "b">>, "NAME"),
    CacheInput(<<"b", "o", "b">>, "SSN"),
    CacheInput(<<>>, "NAME") }

\* the lists handed to addMultipleToCache
CacheInputLists ==
  { <<>>,
    <<CacheInput(<<"B", "o", "b">>, "NAME"), CacheInput(<<"b", "o", "b">>, "SSN")>>,
    <<CacheInput(<<"1", "2", "3", "4">>, "SSN"), CacheInput(<<>>, "NAME")>> }

\* the clock readings of the items of one addMultipleToCache call
itemTimes(n, t) == {ts \in [1..n -> clockReadings(t)] : \A j \in 1..n : \A k \in j..n : ts[j] <= ts[k]}

\* texts handed to importCache besides earlier exports: no JSON, no array,
\* records without valueHash or id, two records of one hash, and more records
\* than the cache holds
BulkImport ==
  [k \in 1..(MAX_CACHE_SIZE + 1) |->
     CachedRedaction(<<"b">> \o toString10(k), <<"h">> \o toString10(k), <<"*">>, "CUSTOM", 0, Num(2), 1)]

ImportTexts ==
  { JsonText("malformed", <<>>),
    JsonText("object", <<>>),
    JsonText("array", <<CachedRedaction(<<"k", "1">>, <<"h", "1">>, <<"*">>, "CUSTOM", 1, Num(1), 1),
                        CachedRedaction(<<"k", "2">>, Undefined, <<"*">>, "CUSTOM", 1, Num(1), 1)>>),
    JsonText("array", <<CachedRedaction(Undefined, <<"h", "3">>, <<"*">>, "CUSTOM", 1, Num(1), 1)>>),
    JsonText("array", <<CachedRedaction(<<"k", "4">>, simpleHash(<<"b", "o", "b">>), <<"*", "*", "*">>, "NAME", 0, Num(5), 3),
                        CachedRedaction(<<"k", "5">>, simpleHash(<<"b", "o", "b">>), <<"[", "N", "]">>, "NAME", 0, Num(1), 3)>>),
    JsonText("array", BulkImport) }

\* texts whose records importCache accepts although one has no usageCount: a
\* record without usageCount before a record of the same hash, and such a
\* record alone
UncountedTexts ==
  { JsonText("array", <<CachedRedaction(<<"k", "6">>, simpleHash(<<"b", "o", "b">>), <<"[", "N", "]">>, "NAME", 0, Missing, 3),
                        CachedRedaction(<<"k", "7">>, simpleHash(<<"b", "o", "b">>), <<"[", "O", "]">>, "NAME", 0, Num(5), 3)>>),
    JsonText("array", <<CachedRedaction(<<"k", "8">>, <<"h", "8">>, <<"*">>, "CUSTOM", 1, Missing, 1)>>) }

\* identifiers handed to removeFromCache: of the first and the last stored
\* entry, and one no entry has
removableIds(c) == {c[j].id : j \in {k \in {1, Len(c)} \cap (1..Len(c)) : c[k].id # Undefined}} \cup {<<"n", "o", "n", "e">>}

(***************************************************************************)
(* The cache operations as actions.  Where the comparator is not           *)
(* consistent for the array an operation sorts, the order                  *)
(* Array.prototype.sort leaves is implementation-defined and the operation *)
(* has one next state for every order in sortedOrders.  SpecCache imports  *)
(* ImportTexts, whose records all have a usageCount; SpecUncounted imports *)
(* UncountedTexts into caches of a few entries.                            *)
(***************************************************************************)
InitCache ==
  /\ DetectorIdle
  /\ CacheUntouched
  /\ MaskIdle
  /\ RateIdle
  /\ AppIdle

Add ==
  /\ lastOp.n < MaxOps
  /\ \E in \in CacheInputs, time \in clockReadings(now) :
       /\ cache' \in savedOutcomes(addedToCache(cache, in.value, in.maskedValue, in.type, randomUUID(nextId), time))
       /\ nextId' = IF isValueCached(cache, in.value) THEN nextId ELSE nextId + 1
       /\ now' = time
       /\ lastOp' = [op |-> "add", n |-> lastOp.n + 1, threw |-> FALSE, before |-> cache,
                     value |-> in.value, maskedValue |-> in.maskedValue, type |-> in.type]
  /\ UNCHANGED exported
  /\ UNCHANGED <<detVars, svcVars>>

AddMany ==
  /\ lastOp.n < MaxOps
  /\ \E items \in CacheInputLists :
       \E times \in itemTimes(Len(items), now) :
          \E done \in {addMultipleLoop(cache, items, 1, nextId, times)} :
              /\ cache' \in savedOutcomes(done.cache)
              /\ nextId' = done.nextId
              /\ now' = IF items = <<>> THEN now ELSE times[Len(items)]
              /\ lastOp' = [op |-> "addMany", n |-> lastOp.n + 1, threw |-> FALSE, before |-> cache, items |-> items]
  /\ UNCHANGED exported
  /\ UNCHANGED <<detVars, svcVars>>

Remove ==
  /\ lastOp.n < MaxOps
  /\ \E id \in removableIds(cache) :
       /\ cache' \in savedOutcomes(removedFromCache(cache, id))
       /\ lastOp' = [op |-> "remove", n |-> lastOp.n + 1, threw |-> FALSE, before |-> cache, id |-> id]
  /\ UNCHANGED <<now, nextId, exported>>
  /\ UNCHANGED <<detVars, svcVars>>

Clear ==
  /\ lastOp.n < MaxOps
  /\ cache' = clearCache(cache)
  /\ lastOp' = [op |-> "clear", n |-> lastOp.n + 1, threw |-> FALSE, before |-> cache]
  /\ UNCHANGED <<now, nextId, exported>>
  /\ UNCHANGED <<detVars, svcVars>>

Export ==
  /\ lastOp.n < MaxOps
  /\ exported' = <<exportCache(cache)>>
  /\ lastOp' = [op |-> "export", n |-> lastOp.n + 1, threw |-> FALSE, before |-> cache]
  /\ UNCHANGED <<cache, now, nextId>>
  /\ UNCHANGED <<detVars, svcVars>>

\* importCache(json, merge): it throws and leaves the cache, or stores what it
\* read or merged
ImportStep(json, merge) ==
  \E threw \in {importThrows(json)} :
     /\ IF threw
        THEN cache' = cache
        ELSE cache' \in savedOutcomes(importedToCache(cache, json, merge))
     /\ lastOp' = [op |-> "import", n |-> lastOp.n + 1, threw |-> threw, before |-> cache,
                   json |-> json, merge |-> merge]

Import ==
  /\ lastOp.n < MaxOps
  /\ \E json \in ImportTexts \cup {exported[j] : j \in 1..Len(exported)}, merge \in BOOLEAN :
       ImportStep(json, merge)
  /\ UNCHANGED <<now, nextId, exported>>
  /\ UNCHANGED <<detVars, svcVars>>

ImportUncounted ==
  /\ lastOp.n < MaxOps
  /\ \E json \in UncountedTexts \cup {exported[j] : j \in 1..Len(exported)}, merge \in BOOLEAN :
       ImportStep(json, merge)
  /\ UNCHANGED <<now, nextId, exported>>
  /\ UNCHANGED <<detVars, svcVars>>

NextCache == Add \/ AddMany \/ Remove \/ Clear \/ Export \/ Import

SpecCache == InitCache /\ [][NextCache]_vars

NextUncounted == Add \/ AddMany \/ Remove \/ Clear \/ Export \/ ImportUncounted

SpecUncounted == InitCache /\ [][NextUncounted]_vars

(***************************************************************************)
(* Properties of the session cache                                         *)
(***************************************************************************)
\* the characters of a type name
typeName(t) ==
  CASE t = "SSN" -> <<"S", "S", "N">>
    [] t = "NAME" -> <<"N", "A", "M", "E">>
    [] t = "CUSTOM" -> <<"C", "U", "S", "T", "O", "M">>
    [] t = "PHONE" -> <<"P", "H", "O", "N", "E">>
    [] t = "EMAIL" -> <<"E", "M", "A", "I", "L">>
    [] t = "DOB" -> <<"D", "O", "B">>
    [] t = "ADDRESS" -> <<"A", "D", "D", "R", "E", "S", "S">>
    [] t = "CREDIT_CARD" -> <<"C", "R", "E", "D", "I", "T", "_", "C", "A", "R", "D">>
    [] t = "ACCOUNT_NUMBER" -> <<"A", "C", "C", "O", "U", "N", "T", "_", "N", "U", "M", "B", "E", "R">>

\* the string field equals or contains the raw value
Holds(field, v) == field # Undefined /\ indexOf(field, v, 0) # -1

\* the entries the cache holds for a raw value
EntriesFor(v) == {j \in 1..Len(cache) : cache[j].valueHash = simpleHash(toLowerCase(v))}

\* C7: after addToCache(v, maskEntity(type, v), type) with a non-empty v, no
\* field of the entry stored for v (valueHash, maskedValue, type, id) equals or
\* contains v.
C7_NoRawValue ==
  (lastOp.op = "add" /\ lastOp.value # <<>>) =>
     \A j \in EntriesFor(lastOp.value) :
        /\ ~Holds(cache[j].valueHash, lastOp.value)
        /\ ~Holds(cache[j].maskedValue, lastOp.value)
        /\ ~Holds(typeName(cache[j].type), lastOp.value)
        /\ ~Holds(cache[j].id, lastOp.value)

\* the two arrays hold the same entries
SameEntries(c, d) == Len(c) = Len(d) /\ {c[j] : j \in 1..Len(c)} = {d[j] : j \in 1..Len(d)}

\* C8: importing, with merge = false, the text exportCache returns for the
\* current cache succeeds and leaves the cache with the same entries.
C8_RoundTrip ==
  (lastOp.op = "import" /\ ~lastOp.merge /\ lastOp.json = exportCache(lastOp.before)) =>
     (~lastOp.threw /\ SameEntries(cache, lastOp.before))

\* a record of an import text lacks a property
LacksField(r) ==
  r.id = Undefined \/ r.valueHash = Undefined \/ r.maskedValue = Undefined \/ r.type = "undefined" \/ r.usageCount = Missing

\* C9: importCache rejects the whole text (throws, cache untouched) when it is
\* no JSON array or when a record lacks a CachedRedaction property.
C9_ImportRejects ==
  (lastOp.op = "import" /\ (lastOp.json.kind # "array" \/ \E j \in 1..Len(lastOp.json.items) : LacksField(lastOp.json.items[j]))) =>
     (lastOp.threw /\ cache = lastOp.before)

\* C9, for what importCache does validate: no JSON array, or a record without
\* valueHash
C9_RejectsUnhashed ==
  (lastOp.op = "import" /\ (lastOp.json.kind # "array" \/ \E j \in 1..Len(lastOp.json.items) : lastOp.json.items[j].valueHash = Undefined)) =>
     (lastOp.threw /\ cache = lastOp.before)

\* C10: the cache never holds more than MAX_CACHE_SIZE entries, whatever
\* sequence of add, addMany, remove, clear and import ran.
C10_Bounded == Len(cache) <= MAX_CACHE_SIZE

\* an import of more than MAX_CACHE_SIZE records went through and the cache is full
C10_FullAfterImport ==
  /\ lastOp.op = "import"
  /\ ~lastOp.threw
  /\ Len(lastOp.json.items) > MAX_CACHE_SIZE
  /\ Len(cache) = MAX_CACHE_SIZE

\* the entries of an array, as a set
EntrySet(c) == {c[j] : j \in 1..Len(c)}

\* the entry an add of lastOp's arguments updates: its index in the cache before, 0 when none
AddTarget == findIndexByHash(lastOp.before, simpleHash(toLowerCase(lastOp.value)))

\* the entries add creates for lastOp's arguments: fresh id, usageCount 1
IsNewEntry(e) ==
  /\ e.valueHash = simpleHash(toLowerCase(lastOp.value))
  /\ e.maskedValue = lastOp.maskedValue
  /\ e.type = lastOp.type
  /\ e.usageCount = Num(1)
  /\ e.valueLength = Len(lastOp.value)
  /\ \A j \in 1..Len(lastOp.before) : lastOp.before[j].id # e.id

\* add on a value whose hash is cached: usageCount + 1, a number, and the new
\* mask on that entry, no entry more or less, everything else as before
AddUpdatesInPlace ==
  AddTarget > 0 =>
     /\ plusOne(lastOp.before[AddTarget].usageCount).is = "number"
     /\ Len(cache) = Len(lastOp.before)
     /\ EntrySet(cache) =
          {lastOp.before[j] : j \in (1..Len(lastOp.before)) \ {AddTarget}}
          \cup {[lastOp.before[AddTarget] EXCEPT !.usageCount = plusOne(@), !.maskedValue = lastOp.maskedValue]}

\* C11: add on a value whose hash is cached increases that entry's
\* usageCount by exactly 1, sets its mask and leaves every other entry as it
\* was; on a hash that is not cached it inserts exactly one new entry with
\* usageCount 1 and leaves every other entry as it was.
C11_AddFrame ==
  lastOp.op = "add" =>
     /\ AddUpdatesInPlace
     /\ AddTarget = 0 =>
          /\ Len(cache) = Len(lastOp.before) + 1
          /\ \E j \in 1..Len(cache) :
                IsNewEntry(cache[j]) /\ EntrySet(cache) = EntrySet(lastOp.before) \cup {cache[j]}

\* C11, the half about a cached hash alone: nothing is inserted and nothing
\* evicted
C11_CountsTheUse ==
  (lastOp.op = "add" /\ AddTarget > 0) => AddUpdatesInPlace

(***************************************************************************)
(* The merge functions on their own: mergeResults (detector.ts:469-496),   *)
(* deduplicateMatches (patterns.ts:82-97) and mergeDetectionResults        *)
(* (route.ts:174-201) applied to one candidate list whose spans all have   *)
(* start < end.  The list is kept in finalMatches; result, regexMatches    *)
(* and allMatches receive what the three functions return.                 *)
(***************************************************************************)
MaxCandidates == 3
MaxOffset == 2

\* mergeDetectionResults of route.ts: its overlap test, loop and sort
routeOverlaps(match, e) ==
  \/ (match.startIndex >= e.startIndex /\ match.startIndex < e.endIndex)
  \/ (match.endIndex > e.startIndex /\ match.endIndex <= e.endIndex)
  \/ (match.startIndex <= e.startIndex /\ match.endIndex >= e.endIndex)

RECURSIVE routeMergeLoop(_, _, _)
routeMergeLoop(sorted, i, res) ==
  IF i > Len(sorted) THEN res
  ELSE LET match == sorted[i]
           hits == {j \in 1..Len(res) : routeOverlaps(match, res[j])}
           overlappingIndex == IF hits = {} THEN 0 ELSE CHOOSE j \in hits : \A h \in hits : j <= h
       IN  IF overlappingIndex # 0
           THEN routeMergeLoop(sorted, i + 1, IF match.confidence > res[overlappingIndex].confidence THEN [res EXCEPT ![overlappingIndex] = match] ELSE res)
           ELSE routeMergeLoop(sorted, i + 1, Append(res, match))

mergeDetectionResults(matches) == IF matches = <<>> THEN <<>> ELSE routeMergeLoop(sortByStart(matches), 1, <<>>)

\* candidates: a type with its confidence, on a proper span of 0..MaxOffset
Ranked == {<<"SSN", 75>>, <<"ACCOUNT_NUMBER", 80>>, <<"NAME", 80>>, <<"PHONE", 85>>}
ProperSpans == {sp \in (0..MaxOffset) \X (1..MaxOffset) : sp[1] < sp[2]}
Candidates == {Entity(r[1], <<"v">>, sp[1], sp[2], r[2], Context("undefined", <<>>)) : r \in Ranked, sp \in ProperSpans}
CandidateLists == UNION {[1..n -> Candidates] : n \in 0..MaxCandidates}

InitMerge ==
  /\ finalMatches \in CandidateLists
  /\ pc = "merge"
  /\ text = <<>>
  /\ types = <<"undefined">>
  /\ regexMatches = <<>>
  /\ allMatches = <<>>
  /\ mergedSoFar = <<>>
  /\ additionalOccurrences = <<>>
  /\ result = <<>>
  /\ calls = <<>>
  /\ unreachable = TRUE
  /\ apiKey = TRUE
  /\ CacheUntouched
  /\ MaskIdle
  /\ RateIdle
  /\ AppIdle

MergeResults ==
  /\ pc = "merge"
  /\ result' = mergeResults(finalMatches)
  /\ pc' = "dedup"
  /\ UNCHANGED <<text, types, regexMatches, allMatches, mergedSoFar, additionalOccurrences, finalMatches, calls, unreachable, apiKey>>
  /\ UNCHANGED <<cacheVars, svcVars>>

DeduplicateMatches ==
  /\ pc = "dedup"
  /\ regexMatches' = deduplicateMatches(finalMatches)
  /\ pc' = "route"
  /\ UNCHANGED <<text, types, allMatches, mergedSoFar, additionalOccurrences, finalMatches, result, calls, unreachable, apiKey>>
  /\ UNCHANGED <<cacheVars, svcVars>>

MergeDetectionResults ==
  /\ pc = "route"
  /\ allMatches' = mergeDetectionResults(finalMatches)
  /\ pc' = "merged"
  /\ UNCHANGED <<text, types, regexMatches, mergedSoFar, additionalOccurrences, finalMatches, result, calls, unreachable, apiKey>>
  /\ UNCHANGED <<cacheVars, svcVars>>

NextMerge == MergeResults \/ DeduplicateMatches \/ MergeDetectionResults

SpecMerge == InitMerge /\ [][NextMerge]_vars

\* the candidate list is two overlapping candidates of different confidence
TwoRivals ==
  /\ Len(finalMatches) = 2
  /\ Intersects(finalMatches[1], finalMatches[2])
  /\ finalMatches[1].confidence # finalMatches[2].confidence

\* the candidate of higher confidence among the two
Stronger == IF finalMatches[1].confidence > finalMatches[2].confidence THEN finalMatches[1] ELSE finalMatches[2]

\* C12: merging two overlapping candidates of different confidence returns
\* the higher-confidence one alone, whatever the types and the span lengths.
C12_HigherConfidenceWins ==
  (pc # "merge" /\ TwoRivals) => result = <<Stronger>>

\* the stronger candidate came second in the list and has the shorter span
C12_LaterShorterWins ==
  /\ pc # "merge"
  /\ TwoRivals
  /\ Stronger = finalMatches[2]
  /\ finalMatches[2].type # finalMatches[1].type
  /\ finalMatches[2].endIndex - finalMatches[2].startIndex < finalMatches[1].endIndex - finalMatches[1].startIndex
  /\ result = <<finalMatches[2]>>

\* C13: every entity detectAllPII returns has a confidence in [0, 1], the
\* confidences the generative service reports included.
C13_ConfidenceInRange ==
  pc = "done" => \A k \in 1..Len(result) : 0 <= result[k].confidence /\ result[k].confidence <= 100

(***************************************************************************)
(* maskEntity on its own: a specification that calls it on drawn values    *)
(***************************************************************************)
MaxMaskLen == 4
MaxMasks == 2

\* values handed to maskEntity: every string of digits and dashes up to MaxMaskLen
MaskAlphabet == {"7", "-"}

MaskValues == UNION {[1..n -> MaskAlphabet] : n \in 0..MaxMaskLen}

InitMask ==
  /\ DetectorIdle
  /\ CacheUntouched
  /\ MaskIdle
  /\ RateIdle
  /\ AppIdle

\* one call maskEntity(type, value), as the detect routes make per match
MaskEntity ==
  /\ Len(maskLog) < MaxMasks
  /\ \E type \in EntityTypes, value \in MaskValues :
       maskLog' = Append(maskLog, [type |-> type, value |-> value, masked |-> maskEntity(type, value)])
  /\ UNCHANGED <<detVars, cacheVars, rateVars, appVars>>

NextMask == MaskEntity

SpecMask == InitMask /\ [][NextMask]_vars

\* C14: maskEntity of a NAME, an ADDRESS or a DOB is one fixed token per
\* type, the same whatever the value and its length.
C14_FixedToken ==
  \A i, j \in 1..Len(maskLog) :
    (maskLog[i].type = maskLog[j].type /\ maskLog[i].type \in {"NAME", "ADDRESS", "DOB"})
      => maskLog[i].masked = maskLog[j].masked

\* the fixed prefix of the four masks that keep a tail of the value
MaskPrefix(type) ==
  CASE type = "SSN" -> <<"*", "*", "*", "-", "*", "*", "-">>
    [] type = "CREDIT_CARD" -> <<"*", "*", "*", "*", "-", "*", "*", "*", "*", "-", "*", "*", "*", "*", "-">>
    [] type = "ACCOUNT_NUMBER" -> <<"*", "*", "*", "*">>
    [] type = "PHONE" -> <<"(", "*", "*", "*", ")", " ", "*", "*", "*", "-">>

\* C15: for SSN, CREDIT_CARD, ACCOUNT_NUMBER and PHONE, maskEntity of a value
\* of at least four characters is the type's prefix followed by the last
\* four characters of the value.
C15_LastFourCharacters ==
  \A i \in 1..Len(maskLog) :
    LET call == maskLog[i]
    IN  (call.type \in {"SSN", "CREDIT_CARD", "ACCOUNT_NUMBER", "PHONE"} /\ Len(call.value) >= 4)
          => call.masked = MaskPrefix(call.type) \o SubSeq(call.value, Len(call.value) - 3, Len(call.value))

(***************************************************************************)
(* Calls to the generative service (Spec)                                  *)
(***************************************************************************)
\* how many client.llm.chat calls the call site has issued
CallsFrom(site) == Cardinality({k \in 1..Len(calls) : calls[k] = site})

\* both second-pass detectors have resolved
SecondPassOver == pc \in {"variations", "rejected", "done"}

\* the filter is absent or names one of the given types
Requests(wanted) == types = Undefined \/ \E k \in 1..Len(types) : types[k] \in wanted

\* C16 as stated: in every detectAllPII invocation, whatever the type filter,
\* detectContextualPII and detectUnstructuredPII each issue exactly one call
\* to the generative service.
C16_ExactlyOneCallEach ==
  SecondPassOver => (CallsFrom("contextual") = 1 /\ CallsFrom("unstructured") = 1)

\* C16: each of the two detectors issues exactly one call when the service
\* key is set and the filter is absent or names one of the detector's own
\* types, and no call otherwise.
C16_OneCallWhenRequested ==
  SecondPassOver =>
    /\ CallsFrom("contextual") = (IF apiKey /\ Requests({"SSN", "ACCOUNT_NUMBER", "CREDIT_CARD", "PHONE", "DOB"}) THEN 1 ELSE 0)
    /\ CallsFrom("unstructured") = (IF apiKey /\ Requests({"NAME", "ADDRESS"}) THEN 1 ELSE 0)

\* the key is set and the filter names names only: the contextual detector
\* returned without calling
C16_ContextualSkipped ==
  /\ SecondPassOver
  /\ apiKey
  /\ types = <<"NAME">>
  /\ CallsFrom("contextual") = 0
  /\ CallsFrom("unstructured") = 1

(***************************************************************************)
(* The rate limiter (src/lib/security/rate-limit.ts)                       *)
(*                                                                         *)
(* A request is the client that sent it and the two headers getClientId    *)
(* reads; Null is the null headers.get returns for an absent header.  Time *)
(* is in milliseconds.  cleanup and checkRateLimit read Date.now() within  *)
(* the same call; the model gives both the same reading.                   *)
(***************************************************************************)
Null == <<"null">>

\* 60 * 1000, one minute
CLEANUP_INTERVAL == 60000

\* String.prototype.trim, on the whitespace the model's headers hold
trim(s) ==
  LET inked == {j \in 1..Len(s) : s[j] # " "}
  IN  IF inked = {} THEN <<>>
      ELSE SubSeq(s, CHOOSE j \in inked : \A k \in inked : j <= k, CHOOSE j \in inked : \A k \in inked : j >= k)

\* s.split(',')[0]
splitFirst(s) ==
  LET commas == {j \in 1..Len(s) : s[j] = ","}
  IN  IF commas = {} THEN s ELSE SubSeq(s, 1, (CHOOSE j \in commas : \A k \in commas : j <= k) - 1)

\* if (header): a header that is present and not the empty string
truthyHeader(h) == h # Null /\ h # <<>>

getClientId(request) ==
  IF truthyHeader(request.forwarded) THEN trim(splitFirst(request.forwarded))
  ELSE IF truthyHeader(request.realIp) THEN request.realIp
  ELSE <<"u", "n", "k", "n", "o", "w", "n", "-", "c", "l", "i", "e", "n", "t">>

\* the store and lastCleanup after cleanup() at time t
cleanup(store, cleaned, t) ==
  IF t - cleaned < CLEANUP_INTERVAL THEN [store |-> store, lastCleanup |-> cleaned]
  ELSE [store |-> [k \in {key \in DOMAIN store : ~(store[key].resetTime < t)} |-> store[k]], lastCleanup |-> t]

\* Math.ceil(ms / 1000)
ceilSeconds(ms) == -((-ms) \div 1000)

\* rateLimitStore.set(key, entry)
storeSet(store, key, entry) == [k \in DOMAIN store \cup {key} |-> IF k = key THEN entry ELSE store[k]]

\* `${keyPrefix}:${clientId}`
rateKey(keyPrefix, clientId) == keyPrefix \o <<":">> \o clientId

\* checkRateLimit with the test of line 112 weakened to count > limit
checkRateLimitOffByOne(store, cleaned, request, config, keyPrefix, t) ==
  LET swept == cleanup(store, cleaned, t)
      key == rateKey(keyPrefix, getClientId(request))
      windowMs == config.windowSeconds * 1000
  IN  IF key \notin DOMAIN swept.store \/ swept.store[key].resetTime < t
      THEN [store |-> storeSet(swept.store, key, [count |-> 1, resetTime |-> t + windowMs]),
            lastCleanup |-> swept.lastCleanup,
            result |-> [allowed |-> TRUE, remaining |-> config.limit - 1, resetIn |-> config.windowSeconds]]
      ELSE LET entry == swept.store[key]
           IN  IF entry.count > config.limit
               THEN [store |-> swept.store,
                     lastCleanup |-> swept.lastCleanup,
                     result |-> [allowed |-> FALSE, remaining |-> 0, resetIn |-> ceilSeconds(entry.resetTime - t)]]
               ELSE [store |-> storeSet(swept.store, key, [count |-> entry.count + 1, resetTime |-> entry.resetTime]),
                     lastCleanup |-> swept.lastCleanup,
                     result |-> [allowed |-> TRUE, remaining |-> config.limit - (entry.count + 1), resetIn |-> ceilSeconds(entry.resetTime - t)]]

\* the store, lastCleanup and the returned value of checkRateLimit at time t
checkRateLimit(store, cleaned, request, config, keyPrefix, t) ==
  LET swept == cleanup(store, cleaned, t)
      key == rateKey(keyPrefix, getClientId(request))
      windowMs == config.windowSeconds * 1000
  IN  IF key \notin DOMAIN swept.store \/ swept.store[key].resetTime < t
      THEN [store |-> storeSet(swept.store, key, [count |-> 1, resetTime |-> t + windowMs]),
            lastCleanup |-> swept.lastCleanup,
            result |-> [allowed |-> TRUE, remaining |-> config.limit - 1, resetIn |-> config.windowSeconds]]
      ELSE LET entry == swept.store[key]
           IN  IF entry.count >= config.limit
               THEN [store |-> swept.store,
                     lastCleanup |-> swept.lastCleanup,
                     result |-> [allowed |-> FALSE, remaining |-> 0, resetIn |-> ceilSeconds(entry.resetTime - t)]]
               ELSE [store |-> storeSet(swept.store, key, [count |-> entry.count + 1, resetTime |-> entry.resetTime]),
                     lastCleanup |-> swept.lastCleanup,
                     result |-> [allowed |-> TRUE, remaining |-> config.limit - (entry.count + 1), resetIn |-> ceilSeconds(entry.resetTime - t)]]

(***************************************************************************)
(* Inputs of the rate limiter                                              *)
(***************************************************************************)
MaxRequests == 4

\* what a route passes: its key prefix and a configuration, here a limit of
\* two requests per one-second window
Endpoint == [keyPrefix |-> <<"d", "e", "t", "e", "c", "t", "-", "p", "i", "i">>, config |-> [limit |-> 2, windowSeconds |-> 1]]

Request(client, forwarded, realIp) == [client |-> client, forwarded |-> forwarded, realIp |-> realIp]

\* two clients; requests without forwarding headers, with a proxy chain in
\* x-forwarded-for, with x-real-ip only
RateRequests ==
  { Request("A", Null, Null),
    Request("B", Null, Null),
    Request("A", <<" ", "7", ",", "8">>, <<"9">>),
    Request("B", <<>>, <<"7">>) }

\* milliseconds between one request and the next: none, up to the end of a
\* one-second window, just past it, a cleanup interval
Delays == {0, 1000, 1001, CLEANUP_INTERVAL}

InitRate ==
  /\ DetectorIdle
  /\ CacheUntouched
  /\ MaskIdle
  /\ RateIdle
  /\ AppIdle

\* one request reaches a route: checkRateLimit(request, config, keyPrefix)
CheckRateLimit ==
  /\ Len(rateLog) < MaxRequests
  /\ \E request \in RateRequests, delay \in Delays :
       LET after == checkRateLimit(rateLimitStore, lastCleanup, request, Endpoint.config, Endpoint.keyPrefix, now + delay)
           key == rateKey(Endpoint.keyPrefix, getClientId(request))
       IN  /\ now' = now + delay
           /\ rateLimitStore' = after.store
           /\ lastCleanup' = after.lastCleanup
           /\ rateLog' = Append(rateLog, [request |-> request, time |-> now + delay, key |-> key,
                                          entry |-> after.store[key], result |-> after.result])
  /\ UNCHANGED <<cache, nextId, exported, lastOp>>
  /\ UNCHANGED <<detVars, maskLog, appVars>>

NextRate == CheckRateLimit

SpecRate == InitRate /\ [][NextRate]_vars

(***************************************************************************)
(* Properties of the rate limiter (SpecRate)                               *)
(***************************************************************************)
\* the limiter after serving the logged requests, at their times, from a
\* freshly loaded module
RECURSIVE Served(_)
Served(log) ==
  IF log = <<>> THEN [store |-> EmptyStore, lastCleanup |-> 0]
  ELSE LET earlier == Served(SubSeq(log, 1, Len(log) - 1))
           e == log[Len(log)]
       IN  checkRateLimit(earlier.store, earlier.lastCleanup, e.request, Endpoint.config, Endpoint.keyPrefix, e.time)

\* the requests up to the i-th that came from the client of the i-th
OwnRequests(i) == SelectSeq(SubSeq(rateLog, 1, i), LAMBDA e : e.request.client = rateLog[i].request.client)

\* C17: the counters are scoped per client: what a request is answered
\* (allowed, remaining) is what it would be answered had no other client
\* sent any request, whatever the forwarding headers.
C17_PerClientCounters ==
  \A i \in 1..Len(rateLog) :
    LET alone == Served(OwnRequests(i)).result
    IN  /\ rateLog[i].result.allowed = alone.allowed
        /\ rateLog[i].result.remaining = alone.remaining

\* the i-th request opened a window on its key
OpensWindow(i) ==
  /\ rateLog[i].entry.count = 1
  /\ rateLog[i].entry.resetTime = rateLog[i].time + Endpoint.config.windowSeconds * 1000

\* the requests on the key of the i-th from the i-th until its window's resetTime
WindowOf(i) ==
  {j \in i..Len(rateLog) : rateLog[j].key = rateLog[i].key /\ rateLog[j].time <= rateLog[i].entry.resetTime}

AllowedIn(w) == {j \in w : rateLog[j].result.allowed}

\* C18: per key and window, from the request that opens the window until
\* resetTime, at most config.limit requests are allowed; every further
\* request is answered allowed = false with remaining 0.
C18_AtMostLimit ==
  \A i \in 1..Len(rateLog) :
    OpensWindow(i) =>
      /\ Cardinality(AllowedIn(WindowOf(i))) <= Endpoint.config.limit
      /\ \A j \in WindowOf(i) :
           Cardinality({k \in AllowedIn(WindowOf(i)) : k < j}) >= Endpoint.config.limit
             => (~rateLog[j].result.allowed /\ rateLog[j].result.remaining = 0)

\* a window took its limit of requests and turned the next one away at the
\* very instant of resetTime; the request after that opened a new window
C18_RejectedAtResetTime ==
  \E i \in 1..Len(rateLog) :
    /\ OpensWindow(i)
    /\ Cardinality(AllowedIn(WindowOf(i))) = Endpoint.config.limit
    /\ \E j \in WindowOf(i) :
         /\ ~rateLog[j].result.allowed
         /\ rateLog[j].time = rateLog[i].entry.resetTime
         /\ j < Len(rateLog)
         /\ rateLog[j + 1].key = rateLog[i].key
         /\ OpensWindow(j + 1)

(***************************************************************************)
(* The canonical interval merge of the specification (section 4.6), and    *)
(* the three implementations against it (SpecMerge)                        *)
(***************************************************************************)
\* one candidate against the most recently accepted entity
canonicalStep(accepted, candidate) ==
  IF accepted = <<>> THEN <<candidate>>
  ELSE LET recent == accepted[Len(accepted)]
       IN  IF candidate.startIndex < recent.endIndex /\ recent.startIndex < candidate.endIndex
           THEN (IF candidate.confidence > recent.confidence THEN [accepted EXCEPT ![Len(accepted)] = candidate] ELSE accepted)
           ELSE Append(accepted, candidate)

RECURSIVE canonicalLoop(_, _, _)
canonicalLoop(sorted, i, accepted) ==
  IF i > Len(sorted) THEN accepted ELSE canonicalLoop(sorted, i + 1, canonicalStep(accepted, sorted[i]))

\* sort by span start ascending (candidates of equal start keep their order), then iterate
canonicalMerge(candidates) == canonicalLoop(sortByStart(candidates), 1, <<>>)

\* C19: on every candidate list whose spans have start < end, mergeResults,
\* deduplicateMatches and mergeDetectionResults each return the canonical
\* merge of the list.
C19_MergesAreCanonical ==
  /\ pc \in {"dedup", "route", "merged"} => result = canonicalMerge(finalMatches)
  /\ pc \in {"route", "merged"} => regexMatches = canonicalMerge(finalMatches)
  /\ pc = "merged" => allMatches = canonicalMerge(finalMatches)

\* three candidates, the last given one, stronger, replaced the first in place and the
\* second was appended after it, in all three implementations
C19_ReplacedThenAppended ==
  /\ pc = "merged"
  /\ Len(finalMatches) = 3
  /\ result = <<finalMatches[3], finalMatches[2]>>
  /\ regexMatches = result
  /\ allMatches = result
  /\ Intersects(finalMatches[1], finalMatches[3])
  /\ finalMatches[3].confidence > finalMatches[1].confidence

(***************************************************************************)
(* Ties between a pattern match and a generative-model match (Spec)        *)
(***************************************************************************)
\* the first merge of detectAllPII was given one pattern match and one
\* generative-model match, overlapping and of equal confidence
PatternTiesWithModel ==
  /\ SecondPassOver
  /\ Len(regexMatches) = 1
  /\ Len(allMatches) = 2
  /\ allMatches[1].context.template = "pattern"
  /\ allMatches[2].context.template # "pattern"
  /\ Intersects(allMatches[1], allMatches[2])
  /\ allMatches[1].confidence = allMatches[2].confidence

\* C20: when a pattern match and a generative-model match overlap and have
\* the same confidence, the merge keeps the pattern match.
C20_PatternWinsTies ==
  PatternTiesWithModel => mergedSoFar = <<allMatches[1]>>

(***************************************************************************)
(* findCachedMatches (cache.ts:168-223), one loop iteration per step       *)
(***************************************************************************)
MaxFindLen == 3
MaxMatches == 6

\* one pass through the body of the inner for loop at offset i for the entry
\* cached, the i++ of the loop header included: the offset and the matches
\* array afterwards
scanIteration(lowerText, cached, i, matches) ==
  LET len == cached.valueLength
      sub == substring(lowerText, i, i + len)
  IN  IF simpleHash(sub) = cached.valueHash
      THEN [i |-> (i + (len - 1)) + 1,
            matches |-> Append(matches, [cached |-> cached, startIndex |-> i, endIndex |-> i + len])]
      ELSE [i |-> i + 1, matches |-> matches]

\* the test of deduped.some(...)
cachedOverlaps(match, m) ==
  \/ (match.startIndex >= m.startIndex /\ match.startIndex < m.endIndex)
  \/ (match.endIndex > m.startIndex /\ match.endIndex <= m.endIndex)

RECURSIVE dedupeCached(_, _, _)
dedupeCached(sorted, j, deduped) ==
  IF j > Len(sorted) THEN deduped
  ELSE IF \E d \in 1..Len(deduped) : cachedOverlaps(sorted[j], deduped[d])
       THEN dedupeCached(sorted, j + 1, deduped)
       ELSE dedupeCached(sorted, j + 1, Append(deduped, sorted[j]))

\* lines 207-222: sort by position, drop what overlaps an earlier kept match
resolveCached(matches) == dedupeCached(sortByStart(matches), 1, <<>>)

MaxCached == 2

\* the values cached before the call, the empty value among them
FindValues == {<<"a", "b">>, <<"b", "a">>, <<"b">>, <<>>}

FindTexts == UNION {[1..n -> {"a", "B", "U+0130"}] : n \in 0..MaxFindLen}

InitFind ==
  /\ DetectorIdle
  /\ CacheUntouched
  /\ MaskIdle
  /\ RateIdle
  /\ AppIdle

\* before the call: addToCache(value, maskEntity(type, value), type) of a
\* value not cached yet, up to MaxCached values
FindAdd ==
  /\ finder.pc = "idle"
  /\ Len(cache) < MaxCached
  /\ \E value \in FindValues :
       /\ ~isValueCached(cache, value)
       /\ cache' = addToCache(cache, value, maskEntity("NAME", value), "NAME", randomUUID(nextId), now)
       /\ nextId' = nextId + 1
  /\ UNCHANGED <<now, exported, lastOp>>
  /\ UNCHANGED <<detVars, svcVars>>

\* lines 173-185: the call findCachedMatches(text) up to the outer loop
FindStart ==
  /\ finder.pc = "idle"
  /\ \E t \in FindTexts :
       finder' = IF Len(cache) = 0
                 THEN [pc |-> "returned", text |-> t, lowerText |-> toLowerCase(t), k |-> 1, i |-> 0, matches |-> <<>>, beyond |-> 0, result |-> <<>>]
                 ELSE [pc |-> "scan", text |-> t, lowerText |-> toLowerCase(t), k |-> 1, i |-> 0, matches |-> <<>>, beyond |-> 0, result |-> <<>>]
  /\ UNCHANGED <<detVars, cacheVars, maskLog, rateVars, redaction, route, job>>

\* lines 193-205: the loop condition holds, one iteration of the inner loop.
\* The model keeps the first MaxMatches elements of the array; of the pushes
\* beyond them it keeps the parity, so that every iteration is a step.
ScanStep ==
  /\ finder.pc = "scan"
  /\ finder.k <= Len(cache)
  /\ ~(cache[finder.k].valueLength > Len(finder.lowerText))
  /\ finder.i <= Len(finder.lowerText) - cache[finder.k].valueLength
  /\ LET after == scanIteration(finder.lowerText, cache[finder.k], finder.i, finder.matches)
     IN  IF Len(after.matches) <= MaxMatches
         THEN finder' = [finder EXCEPT !.i = after.i, !.matches = after.matches]
         ELSE finder' = [finder EXCEPT !.i = after.i, !.beyond = 1 - @]
  /\ UNCHANGED <<detVars, cacheVars, maskLog, rateVars, redaction, route, job>>

\* lines 189-191, 193: the entry is longer than the text (continue) or the
\* inner loop has run out: on to the next entry
NextEntry ==
  /\ finder.pc = "scan"
  /\ finder.k <= Len(cache)
  /\ \/ cache[finder.k].valueLength > Len(finder.lowerText)
     \/ ~(finder.i <= Len(finder.lowerText) - cache[finder.k].valueLength)
  /\ finder' = [finder EXCEPT !.k = @ + 1, !.i = 0]
  /\ UNCHANGED <<detVars, cacheVars, maskLog, rateVars, redaction, route, job>>

\* lines 207-222: every entry has been scanned
Resolve ==
  /\ finder.pc = "scan"
  /\ finder.k > Len(cache)
  /\ finder' = [finder EXCEPT !.pc = "returned", !.result = resolveCached(finder.matches)]
  /\ UNCHANGED <<detVars, cacheVars, maskLog, rateVars, redaction, route, job>>

NextFind == FindAdd \/ FindStart \/ ScanStep \/ NextEntry \/ Resolve

SpecFind == InitFind /\ [][NextFind]_vars

\* the call runs on one thread and nothing preempts it: a step that can be
\* taken is taken
SpecFindLive == SpecFind /\ WF_vars(NextFind)

(***************************************************************************)
(* Properties of findCachedMatches (SpecFind, SpecFindLive)                *)
(***************************************************************************)
\* the value findCachedMatches returned, as a set
Returned == {finder.result[j] : j \in 1..Len(finder.result)}

\* C21: the matches findCachedMatches(text) returns are sorted by start and
\* pairwise non-overlapping; each span has the length of its entry's
\* valueLength and the lowercased substring of the text at the span hashes to
\* the entry's valueHash; of two overlapping candidate matches the one that
\* starts further left is the one returned.
C21_CachedMatches ==
  finder.pc = "returned" =>
    /\ \A j, k \in 1..Len(finder.result) :
         j < k => /\ finder.result[j].startIndex <= finder.result[k].startIndex
                  /\ ~Intersects(finder.result[j], finder.result[k])
    /\ \A m \in Returned :
         /\ m.endIndex - m.startIndex = m.cached.valueLength
         /\ simpleHash(toLowerCase(substring(finder.text, m.startIndex, m.endIndex))) = m.cached.valueHash
    /\ (Len(finder.matches) = 2 /\ Intersects(finder.matches[1], finder.matches[2]))
         => \E j \in 1..2 :
              /\ Returned = {finder.matches[j]}
              /\ finder.matches[j].startIndex <= finder.matches[3 - j].startIndex

\* C25: findCachedMatches(text) terminates for every text and every cache
\* content reachable through add, addMany and import, entries created from
\* an empty value included.
C25_Terminates ==
  <>(finder.pc = "returned")

(***************************************************************************)
(* Applying the reviewed redactions: POST /api/export-pdf                  *)
(* (src/app/api/ocr/route.ts:215-226) and POST /api/export                 *)
(* (src/app/api/export/route.ts:43-67)                                     *)
(***************************************************************************)
MaxWords == 3

\* What String.prototype.replace puts in for one match when the replacement
\* is a string: the replacement is a pattern in which $$ stands for "$", $&
\* for the matched text, "$" and a grave accent for the text before the match,
\* "$" and an apostrophe for the text after it; the escaped value has no capture group, so $1 and the like, and
\* every other character, stand for themselves.  j is the position read.
\* the grave accent, by its code point
GraveAccent == "U+0060"

RECURSIVE getSubstitution(_, _, _, _, _)
getSubstitution(replacement, j, matched, before, after) ==
  IF j > Len(replacement) THEN <<>>
  ELSE IF replacement[j] = "$" /\ j < Len(replacement) /\ replacement[j + 1] \in {"$", "&", GraveAccent, "'"}
  THEN (CASE replacement[j + 1] = "$" -> <<"$">>
          [] replacement[j + 1] = "&" -> matched
          [] replacement[j + 1] = GraveAccent -> before
          [] OTHER -> after)
       \o getSubstitution(replacement, j + 2, matched, before, after)
  ELSE <<replacement[j]>> \o getSubstitution(replacement, j + 1, matched, before, after)

\* text.replace(new RegExp(escapedValue, 'g'), maskedValue): every occurrence
\* of the literal value, left to right and non-overlapping, from offset from
\* on, gives way to the substitution of maskedValue for it; an empty value
\* matches before every character and at the end
RECURSIVE replaceAllFrom(_, _, _, _)
replaceAllFrom(s, value, masked, from) ==
  IF value = <<>>
  THEN LET put == getSubstitution(masked, 1, <<>>, SubSeq(s, 1, from), SubSeq(s, from + 1, Len(s)))
       IN  IF from >= Len(s) THEN put ELSE put \o <<s[from + 1]>> \o replaceAllFrom(s, value, masked, from + 1)
  ELSE LET at == indexOf(s, value, from)
       IN  IF at = -1 THEN SubSeq(s, from + 1, Len(s))
           ELSE SubSeq(s, from + 1, at)
                \o getSubstitution(masked, 1, value, SubSeq(s, 1, at), SubSeq(s, at + Len(value) + 1, Len(s)))
                \o replaceAllFrom(s, value, masked, at + Len(value))

\* entities.filter(e => e.shouldRedact)
entitiesToRedact(entities) == SelectSeq(entities, LAMBDA e : e.shouldRedact)

\* the for loop of /api/export-pdf over the selected entities, in array order
RECURSIVE exportPdfLoop(_, _, _)
exportPdfLoop(redactedText, selected, j) ==
  IF j > Len(selected) THEN redactedText
  ELSE exportPdfLoop(replaceAllFrom(redactedText, selected[j].value, selected[j].maskedValue, 0), selected, j + 1)

exportPdfText(t, entities) == exportPdfLoop(t, entitiesToRedact(entities), 1)

\* [...entitiesToRedact].sort((a, b) => b.startIndex - a.startIndex)
RECURSIVE sortByStartDescending(_)
sortByStartDescending(es) ==
  IF es = <<>> THEN <<>>
  ELSE LET front == sortByStartDescending(SubSeq(es, 1, Len(es) - 1))
           x == es[Len(es)]
           n == Cardinality({j \in 1..Len(front) : front[j].startIndex >= x.startIndex})
       IN  SubSeq(front, 1, n) \o <<x>> \o SubSeq(front, n + 1, Len(front))

\* the for loop of /api/export: each selected span replaced, last span first
RECURSIVE exportLoop(_, _, _)
exportLoop(redactedText, sortedEntities, j) ==
  IF j > Len(sortedEntities) THEN redactedText
  ELSE LET entity == sortedEntities[j]
           before == substring(redactedText, 0, entity.startIndex)
           after == substring(redactedText, entity.endIndex, Len(redactedText))
       IN  exportLoop(before \o entity.maskedValue \o after, sortedEntities, j + 1)

exportText(t, entities) == exportLoop(t, sortByStartDescending(entitiesToRedact(entities)), 1)

\* a document: up to MaxWords names separated by one blank, and one detected
\* entity per name; the reviewer has set each shouldRedact and has edited the
\* mask of one name, to a text with or without a "$"
Names == {<<"B", "o", "b">>, <<"A", "l">>}

EditedMasks == {<<"[", "N", "]">>, <<"$", "&">>, <<"$", "$">>, <<"[", "$", "'", "]">>}

MaskOfName(name, edited) == IF name = <<"A", "l">> THEN edited ELSE maskEntity("NAME", name)

RECURSIVE documentText(_)
documentText(words) ==
  IF words = <<>> THEN <<>>
  ELSE IF Len(words) = 1 THEN words[1]
  ELSE documentText(SubSeq(words, 1, Len(words) - 1)) \o <<" ">> \o words[Len(words)]

documentEntities(words, flags, edited) ==
  [j \in 1..Len(words) |->
     LET start == IF j = 1 THEN 0 ELSE Len(documentText(SubSeq(words, 1, j - 1))) + 1
     IN  [type |-> "NAME", value |-> words[j], startIndex |-> start, endIndex |-> start + Len(words[j]),
          maskedValue |-> MaskOfName(words[j], edited), shouldRedact |-> flags[j]]]

InitRedact ==
  /\ DetectorIdle
  /\ CacheUntouched
  /\ MaskIdle
  /\ RateIdle
  /\ finder = [pc |-> "idle"]
  /\ route = [pc |-> "idle"]
  /\ job = [pc |-> "idle"]
  /\ \E n \in 1..MaxWords :
       \E words \in [1..n -> Names], flags \in [1..n -> BOOLEAN], edited \in EditedMasks :
          redaction = [pc |-> "reviewed", text |-> documentText(words), entities |-> documentEntities(words, flags, edited)]

\* POST /api/export-pdf with the text and the entities; a request without
\* text is answered 400
ExportPdf ==
  /\ redaction.pc = "reviewed"
  /\ IF redaction.text = <<>>
     THEN redaction' = [pc |-> "rejected", text |-> redaction.text, entities |-> redaction.entities]
     ELSE redaction' = [pc |-> "pdf", text |-> redaction.text, entities |-> redaction.entities,
                        redactedText |-> exportPdfText(redaction.text, redaction.entities)]
  /\ UNCHANGED <<detVars, cacheVars, maskLog, rateVars, finder, route, job>>

\* POST /api/export for the job holding the document: a document without
\* text or without a selected entity is passed over and no text is exported
ExportJob ==
  /\ redaction.pc = "reviewed"
  /\ IF redaction.text = <<>> \/ entitiesToRedact(redaction.entities) = <<>>
     THEN redaction' = [pc |-> "passed", text |-> redaction.text, entities |-> redaction.entities]
     ELSE redaction' = [pc |-> "job", text |-> redaction.text, entities |-> redaction.entities,
                        redactedText |-> exportText(redaction.text, redaction.entities)]
  /\ UNCHANGED <<detVars, cacheVars, maskLog, rateVars, finder, route, job>>

NextRedact == ExportPdf \/ ExportJob

SpecRedact == InitRedact /\ [][NextRedact]_vars

\* where the text of entity j lies in the exported text when exactly the
\* selected spans before it were replaced by their masks
ShiftOf(j) ==
  LET es == redaction.entities
      RECURSIVE sum(_)
      sum(k) == IF k = 0 THEN 0
                ELSE sum(k - 1) + (IF es[k].shouldRedact THEN Len(es[k].maskedValue) - Len(es[k].value) ELSE 0)
  IN  sum(j - 1)

PieceOf(j) ==
  substring(redaction.redactedText, redaction.entities[j].startIndex + ShiftOf(j),
            redaction.entities[j].startIndex + ShiftOf(j)
              + (IF redaction.entities[j].shouldRedact THEN Len(redaction.entities[j].maskedValue) ELSE Len(redaction.entities[j].value)))

\* C22: in the exported text the occurrence of an entity with
\* shouldRedact = false stands exactly as in the original text and the
\* occurrence of an entity with shouldRedact = true is replaced by its
\* maskedValue, also when a deselected entity has the value of a selected one.
C22_DeselectedKept ==
  redaction.pc \in {"pdf", "job"} =>
    \A j \in 1..Len(redaction.entities) :
      PieceOf(j) = (IF redaction.entities[j].shouldRedact THEN redaction.entities[j].maskedValue ELSE redaction.entities[j].value)

(***************************************************************************)
(* The type filter of detectAllPII                                         *)
(***************************************************************************)
\* C29: detectAllPII(text, types) with a type filter returns only entities
\* whose type is in the filter, whatever types the generative service reports.
C29_OnlyRequestedTypes ==
  (pc = "done" /\ types # Undefined) => \A k \in 1..Len(result) : Includes(types, result[k].type)

(***************************************************************************)
(* The stored cache as a map from hash to entry                            *)
(***************************************************************************)
\* C26: after any sequence of add, addMany, remove, clear and import (merging
\* or replacing), no two stored cache entries have the same valueHash.
C26_UniqueHashes ==
  \A i, j \in 1..Len(cache) : i # j => cache[i].valueHash # cache[j].valueHash

\* isValueCached(lastOp.value) on the stored cache returns an entry, and the
\* entry's maskedValue is the mask handed to add
FoundWithMask ==
  LET j == findIndexByHash(cache, simpleHash(toLowerCase(lastOp.value)))
  IN  j > 0 /\ cache[j].maskedValue = lastOp.maskedValue

\* C27: after add(value, masked, type), isValueCached(value) returns an entry
\* whose maskedValue is masked, from every prior cache state, a full cache
\* included.
C27_CachedAfterAdd ==
  lastOp.op = "add" => FoundWithMask

\* C27 for the prior states in which the cache holds fewer than
\* MAX_CACHE_SIZE entries, so that the add evicts nothing
C27_CachedBelowCapacity ==
  (lastOp.op = "add" /\ Len(lastOp.before) < MAX_CACHE_SIZE) => FoundWithMask

\* addToCache called on each item of the list in order: the arrays that may
\* be stored afterwards; n counts the identifiers handed out, times[j] is the
\* clock when item j is added
RECURSIVE addEach(_, _, _, _, _)
addEach(c, items, j, n, times) ==
  IF j > Len(items) THEN {c}
  ELSE UNION {addEach(d, items, j + 1, n + 1, times) :
                d \in savedOutcomes(addedToCache(c, items[j].value, items[j].maskedValue, items[j].type, randomUUID(n), times[j]))}

\* what the claim compares of a stored cache: hash, usageCount and maskedValue
\* of every entry
Stored(c) == {<<c[j].valueHash, c[j].usageCount, c[j].maskedValue>> : j \in 1..Len(c)}

\* the clock readings the items of the latest addMany may have had: the clock
\* stood at now when the last item was handled and advances by at most one
\* millisecond during an operation
BatchTimes ==
  {ts \in [1..Len(lastOp.items) -> {Max(now - 1, 0), now}] :
      /\ \A j \in 1..Len(ts) : \A k \in j..Len(ts) : ts[j] <= ts[k]
      /\ ts # <<>> => ts[Len(ts)] = now}

\* the stored cache is what add on each item of the latest addMany can give
SameAsAddEach ==
  \A times \in BatchTimes :
     \E each \in addEach(lastOp.before, lastOp.items, 1, nextId, times) :
        Len(cache) = Len(each) /\ Stored(cache) = Stored(each)

\* C28: addMany(items) leaves the stored cache with the same entries (hashes,
\* usageCounts, maskedValues) as add on each item in order, from every prior
\* cache state.
C28_AddManyIsAddEach ==
  lastOp.op = "addMany" => SameAsAddEach

\* C28 for the prior states in which the entries of the cache and the items
\* of the list together are at most MAX_CACHE_SIZE, so that neither addMany
\* nor an add evicts anything
C28_SameBelowCapacity ==
  (lastOp.op = "addMany" /\ Len(lastOp.before) + Len(lastOp.items) <= MAX_CACHE_SIZE) => SameAsAddEach

(***************************************************************************)
(* Cover of the candidates a merge drops                                   *)
(***************************************************************************)
\* the candidate is in the merged list, or intersects a member of the merged
\* list whose confidence is at least as high
Covered(candidate, merged) ==
  \E k \in 1..Len(merged) :
     \/ merged[k] = candidate
     \/ (Intersects(candidate, merged[k]) /\ merged[k].confidence >= candidate.confidence)

\* C24: the merge never drops a candidate without cover: every candidate
\* given to mergeResults, mergeDetectionResults or deduplicateMatches is in
\* the output or overlaps an output entity of at least its confidence.
C24_DroppedIsCovered ==
  pc = "merged" =>
     \A j \in 1..Len(finalMatches) :
        /\ Covered(finalMatches[j], result)
        /\ Covered(finalMatches[j], allMatches)
        /\ Covered(finalMatches[j], regexMatches)

(***************************************************************************)
(* POST /api/detect-pii (src/app/api/detect-pii/route.ts)                  *)
(***************************************************************************)
\* number of semantic queries PII_SEMANTIC_QUERIES holds for a type
PII_SEMANTIC_QUERIES(type) ==
  CASE type \in {"SSN", "ACCOUNT_NUMBER", "NAME", "ADDRESS", "DOB"} -> 2
    [] type \in {"CREDIT_CARD", "PHONE", "EMAIL"} -> 1
    [] OTHER -> 0

\* extractionPatterns[type] || []
extractionPatterns(type) ==
  CASE type = "SSN" -> <<Sq(<<WB, Rep(D, 3, 3), Opt(Sep), Rep(D, 2, 2), Opt(Sep), Rep(D, 4, 4), WB>>)>>
    [] type = "ACCOUNT_NUMBER" -> <<Sq(<<WB, Rep(D, 8, 17), WB>>)>>
    [] type = "CREDIT_CARD" ->
         <<Sq(<<WB,
                Alt(<<Sq(<<Ch({"4"}), Rep(D, 12, 12), Opt(Rep(D, 3, 3))>>),
                      Sq(<<Ch({"5"}), Ch({"1", "2", "3", "4", "5"}), Rep(D, 14, 14)>>),
                      Sq(<<Ch({"3"}), Ch({"4", "7"}), Rep(D, 13, 13)>>)>>),
                WB>>)>>
    [] type = "PHONE" ->
         <<Sq(<<WB,
                Opt(Sq(<<Opt(Ch({"+"})), Ch({"1"}), Opt(Sep)>>)),
                Opt(Sq(<<Opt(Ch({"("})), Rep(D, 3, 3), Opt(Ch({")"})), Opt(Sep)>>)),
                Rep(D, 3, 3), Opt(Sep), Rep(D, 4, 4),
                WB>>)>>
    [] type = "EMAIL" -> <<EMAIL_REGEX>>
    [] type = "DOB" ->
         <<DOB_REGEX,
           Sq(<<WB,
                Alt(<<LitI(<<"j", "a", "n", "u", "a", "r", "y">>),
                   LitI(<<"f", "e", "b", "r", "u", "a", "r", "y">>),
                   LitI(<<"m", "a", "r", "c", "h">>),
                   LitI(<<"a", "p", "r", "i", "l">>),
                   LitI(<<"m", "a", "y">>),
                   LitI(<<"j", "u", "n", "e">>),
                   LitI(<<"j", "u", "l", "y">>),
                   LitI(<<"a", "u", "g", "u", "s", "t">>),
                   LitI(<<"s", "e", "p", "t", "e", "m", "b", "e", "r">>),
                   LitI(<<"o", "c", "t", "o", "b", "e", "r">>),
                   LitI(<<"n", "o", "v", "e", "m", "b", "e", "r">>),
                   LitI(<<"d", "e", "c", "e", "m", "b", "e", "r">>)>>),
                Plus(Ws), Rep(D, 1, 2), Opt(Ch({","})), Plus(Ws), Rep(D, 4, 4),
                WB>>)>>
    [] OTHER -> <<>>

\* lines 100-112: every position of value in the original text, searchStart
\* advancing by one
RECURSIVE vaultOccurrences(_, _, _, _)
vaultOccurrences(originalText, type, value, searchStart) ==
  LET foundIndex == indexOf(originalText, value, searchStart)
  IN  IF foundIndex = -1 THEN <<>>
      ELSE <<Entity(type, value, foundIndex, foundIndex + Len(value), 85, Context("vault", <<>>))>>
           \o vaultOccurrences(originalText, type, value, foundIndex + 1)

extractValuesFromChunk(chunkText, type, originalText) ==
  LET patterns == extractionPatterns(type)
      found(j) == execAll([type |-> type, regex |-> patterns[j], confidence |-> 85], chunkText, 0)
  IN  Concat([j \in 1..Len(patterns) |->
                Concat([m \in 1..Len(found(j)) |-> vaultOccurrences(originalText, type, found(j)[m].value, 0)])])

\* the vault.search calls of one pass, in order: the type of each
RECURSIVE vaultSearches(_)
vaultSearches(ts) ==
  IF ts = <<>> THEN <<>>
  ELSE [q \in 1..PII_SEMANTIC_QUERIES(Head(ts)) |-> Head(ts)] \o vaultSearches(Tail(ts))

\* A reply of client.vault.search: kind "error" (the call rejects) or kind
\* "chunks" with the chunks found, each a record object_id (empty when the
\* chunk has none), text.
\* vault.available is false when createCaseDevClient throws (no key); vault.replies
\* holds the replies of the searches in order.
detectPIIWithVaultSearch(s, ts, objectId, vault) ==
  IF ~vault.available THEN <<>>
  ELSE LET searches == vaultSearches(ts)
           ofChunk(type, chunk) ==
             IF chunk.object_id = objectId \/ chunk.object_id = "" THEN extractValuesFromChunk(chunk.text, type, s) ELSE <<>>
           ofSearch(j) ==
             IF vault.replies[j].kind = "error" THEN <<>>
             ELSE Concat([c \in 1..Len(vault.replies[j].chunks) |-> ofChunk(searches[j], vault.replies[j].chunks[c])])
       IN  Concat([j \in 1..Len(searches) |-> ofSearch(j)])

\* match.context?.includes('vault semantic search'), on the text of the
\* context: the words start at some offset of it
includesVaultSemanticSearch(context) ==
  /\ context.template # "undefined"
  /\ \E t \in {contextText(context)}, w \in {<<"v", "a", "u", "l", "t", " ", "s", "e", "m", "a", "n", "t", "i", "c", " ", "s", "e", "a", "r", "c", "h">>} :
        \E i \in 0..(Len(t) - Len(w)) : \A k \in 1..Len(w) : t[i + k] = w[k]

\* lines 265-270
detectionMethod(match) ==
  IF includesVaultSemanticSearch(match.context) THEN "vault"
  ELSE IF match.confidence > 90 THEN "regex"
  ELSE "llm"

\* lines 263-283: mergedMatches.map(...), defined when no maskEntity call throws
detectionResults(mergedMatches, t) ==
  [j \in 1..Len(mergedMatches) |->
     LET match == mergedMatches[j]
     IN  [id |-> <<t, j - 1>>,
          type |-> match.type,
          value |-> match.value,
          maskedValue |-> maskEntity(match.type, match.value),
          startIndex |-> match.startIndex,
          endIndex |-> match.endIndex,
          confidence |-> match.confidence,
          context |-> match.context,
          detectionMethod |-> detectionMethod(match)]]

\* RateLimits.detectPII (rate-limit.ts:49) and the key prefix of the route
DetectPiiEndpoint == [keyPrefix |-> <<"d", "e", "t", "e", "c", "t", "-", "p", "i", "i">>, config |-> [limit |-> 20, windowSeconds |-> 60]]

MaxRouteTokens == 2

\* the text of a request body that passes the schema: up to MaxRouteTokens tokens
RouteTexts == {Concat(ts) : ts \in UNION {[1..n -> Tokens] : n \in 1..MaxRouteTokens}}

RouteTypes == {Undefined, <<"PHONE">>, <<"PHONE", "EMAIL">>}

\* the vaultContext of the request body: a vault and a document, or omitted
\* (both identifiers empty; the schema admits no empty identifier)
VaultContexts == {[vaultId |-> "", objectId |-> ""], [vaultId |-> "v", objectId |-> "o"]}

\* vaultContext?.vaultId && vaultContext?.objectId
hasVaultContext(vaultContext) == vaultContext.vaultId # "" /\ vaultContext.objectId # ""

\* chunks the vault may return: of the document or of another one, holding
\* a telephone number or nothing of interest
VaultChunks ==
  { [object_id |-> "o", text |-> <<"5", "5", "5", "1", "2", "3", "4">>],
    [object_id |-> "p", text |-> <<"5", "5", "5", "1", "2", "3", "4">>],
    [object_id |-> "", text |-> <<"0", " ", "5", "5", "5", "-", "1", "2", "3", "4">>] }

VaultReplies == {[kind |-> "error", chunks |-> <<>>]} \cup {[kind |-> "chunks", chunks |-> cs] : cs \in {<<>>} \cup {<<c>> : c \in VaultChunks}}

\* the outcomes of one vault pass: without the key no client, with it one
\* reply per search
VaultOutcomes(ts, key) ==
  IF ~key THEN {[available |-> FALSE, replies |-> <<>>]}
  ELSE {[available |-> TRUE, replies |-> r] : r \in [1..Len(vaultSearches(ts)) -> VaultReplies]}

MaxRouteRequests == 2
MaxDetections == 1

\* Handlers of the route run side by side, each on locals of its own:
\* route.waiting holds the rate-limit results of the handlers that wait at
\* await validateRequestBody for their body (line 229), route.answers the
\* answers given so far in order, route.pc the place of the handler that is
\* past validation ("idle" when there is none) and route.detections the
\* number of handlers that got there.  The handlers past validation are
\* followed one at a time: a body that validates arrives when no other
\* handler is inside detectAllPII.
\* The client of the requests has made no request yet, or has used up the
\* limit of the window that is open.
InitRoute ==
  /\ DetectorAtRest
  /\ apiKey \in BOOLEAN
  /\ CacheUntouched
  /\ MaskIdle
  /\ lastCleanup = 0
  /\ rateLog = <<>>
  /\ \E used \in {0, DetectPiiEndpoint.config.limit} :
       rateLimitStore = IF used = 0 THEN EmptyStore
                        ELSE storeSet(EmptyStore, rateKey(DetectPiiEndpoint.keyPrefix, getClientId(Request("A", Null, Null))),
                                      [count |-> used, resetTime |-> DetectPiiEndpoint.config.windowSeconds * 1000])
  /\ finder = [pc |-> "idle"]
  /\ redaction = [pc |-> "idle"]
  /\ route = [pc |-> "idle", waiting |-> <<>>, answers |-> <<>>, detections |-> 0]
  /\ job = [pc |-> "idle"]

\* the requests the route has received
routeRequests == Len(route.waiting) + Len(route.answers) + (IF route.pc = "detecting" THEN 1 ELSE 0)

\* xs without its j-th element
WithoutAt(xs, j) == SubSeq(xs, 1, j - 1) \o SubSeq(xs, j + 1, Len(xs))

\* lines 220-229: rate limiting, a synchronous stretch that writes the store;
\* the handler then answers 429 or waits for its body
ReceiveDetectPii ==
  /\ routeRequests < MaxRouteRequests
  /\ LET after == checkRateLimit(rateLimitStore, lastCleanup, Request("A", Null, Null), DetectPiiEndpoint.config, DetectPiiEndpoint.keyPrefix, now)
     IN  /\ rateLimitStore' = after.store
         /\ lastCleanup' = after.lastCleanup
         /\ IF ~after.result.allowed
            THEN route' = [route EXCEPT !.answers = Append(@, [status |-> 429, matches |-> <<>>])]
            ELSE route' = [route EXCEPT !.waiting = Append(@, after.result)]
  /\ UNCHANGED <<detVars, cacheVars, maskLog, rateLog, finder, redaction, job>>

\* lines 229-232: the body of a waiting handler has arrived and fails the
\* schema (text: z.string().min(1)) or is no JSON
RejectDetectPii ==
  /\ \E w \in 1..Len(route.waiting) :
       route' = [route EXCEPT !.waiting = WithoutAt(@, w), !.answers = Append(@, [status |-> 400, matches |-> <<>>])]
  /\ UNCHANGED <<detVars, cacheVars, maskLog, rateVars, finder, redaction, job>>

\* lines 229-237: the body of a waiting handler has arrived and passes the
\* schema; up to the await of detectAllPII
StartDetectPii ==
  /\ route.pc = "idle"
  /\ route.detections < MaxDetections
  /\ \E w \in 1..Len(route.waiting), t \in RouteTexts, ts \in RouteTypes, vaultContext \in VaultContexts :
       /\ route' = [pc |-> "detecting", waiting |-> WithoutAt(route.waiting, w), answers |-> route.answers,
                    detections |-> route.detections + 1, vaultContext |-> vaultContext, rateLimit |-> route.waiting[w]]
       /\ text' = t
       /\ types' = ts
  /\ pc' = "start"
  /\ regexMatches' = <<>>
  /\ allMatches' = <<>>
  /\ mergedSoFar' = <<>>
  /\ additionalOccurrences' = <<>>
  /\ finalMatches' = <<>>
  /\ result' = <<>>
  /\ calls' = <<>>
  /\ unreachable' = TRUE
  /\ UNCHANGED <<apiKey, cacheVars, maskLog, rateVars, finder, redaction, job>>

\* lines 237-299: detectAllPII has resolved; the vault pass, the merge, the
\* response.  A maskEntity call that throws inside mergedMatches.map is
\* caught at line 293 and the handler answers 500.
RespondDetectPii ==
  /\ route.pc = "detecting"
  /\ pc = "done"
  /\ \E vault \in (IF hasVaultContext(route.vaultContext)
                    THEN VaultOutcomes(IF types # Undefined THEN types ELSE <<>>, apiKey)
                    ELSE {[available |-> FALSE, replies |-> <<>>]}) :
       LET vaultMatches == IF hasVaultContext(route.vaultContext)
                           THEN detectPIIWithVaultSearch(text, IF types # Undefined THEN types ELSE <<>>, route.vaultContext.objectId, vault)
                           ELSE <<>>
           mergedMatches == mergeDetectionResults(result \o vaultMatches)
           threw == SelectSeq(mergedMatches, LAMBDA match : maskEntityThrows(match.type, match.value)) # <<>>
       IN  route' = [pc |-> "idle", waiting |-> route.waiting, detections |-> route.detections,
                     answers |-> Append(route.answers,
                                        IF threw
                                        THEN [status |-> 500, matches |-> <<>>]
                                        ELSE [status |-> 200,
                                              matches |-> detectionResults(mergedMatches, now),
                                              vaultEnhanced |-> hasVaultContext(route.vaultContext),
                                              remaining |-> route.rateLimit.remaining])]
  /\ UNCHANGED <<detVars, cacheVars, maskLog, rateVars, finder, redaction, job>>

\* lines 237 and 293-299: detectAllPII has rejected
FailDetectPii ==
  /\ route.pc = "detecting"
  /\ pc = "rejected"
  /\ route' = [pc |-> "idle", waiting |-> route.waiting, detections |-> route.detections,
               answers |-> Append(route.answers, [status |-> 500, matches |-> <<>>])]
  /\ UNCHANGED <<detVars, cacheVars, maskLog, rateVars, finder, redaction, job>>

NextRoute ==
  ReceiveDetectPii \/ RejectDetectPii \/ StartDetectPii \/ Pass1 \/ Pass2 \/ Pass2b \/ Pass3 \/ RespondDetectPii \/ FailDetectPii

SpecRoute == InitRoute /\ [][NextRoute]_vars

\* the pass that produced a returned entity, read off the template of the
\* context the pass attaches: the pattern matcher, the generative model
\* (contextual, names-and-addresses, variations), the vault search, the
\* occurrence scan
producedBy(m) ==
  CASE m.context.template = "pattern" -> "regex"
    [] m.context.template = "vault" -> "vault"
    [] m.context.template \in {"undefined", "reported", "ai", "variation", "retrospective"} -> "llm"
    [] OTHER -> "scan"

\* C23: every entity POST /api/detect-pii returns carries the detection method
\* of the pass that produced it: regex for a pattern hit of any type, llm for
\* an entity of the generative model, vault for one of the semantic search.
C23_MethodNamesThePass ==
  \A a \in 1..Len(route.answers) :
     route.answers[a].status = 200 =>
        \A k \in 1..Len(route.answers[a].matches) :
           producedBy(route.answers[a].matches[k]) \in {"regex", "llm", "vault"} =>
              route.answers[a].matches[k].detectionMethod = producedBy(route.answers[a].matches[k])

(***************************************************************************)
(* The status of a redaction job under POST /api/detect                    *)
(* (src/app/api/detect/route.ts) and POST /api/export                      *)
(* (src/app/api/export/route.ts), with the other requests that write the   *)
(* job, its documents or their entities: POST /api/upload (upload-db),     *)
(* PATCH /api/jobs and PATCH /api/detect.  A handler is an async function; *)
(* one action is a stretch between two awaits that reads or writes the     *)
(* job, a document or an entity, or that ends the handler.                 *)
(* A document is a record text (extractedText is set and not empty),       *)
(* entities (the number of detected entities), selected (how many of them  *)
(* have shouldRedact), redactedUrl; every document has an originalUrl.     *)
(***************************************************************************)
\* jobStatusEnum
JobStatuses == <<"PENDING", "PROCESSING_OCR", "DETECTING_PII", "AWAITING_REVIEW", "APPLYING_REDACTIONS", "GENERATING_PDF", "COMPLETED", "FAILED">>

MaxDocuments == 2
MaxHandlers == 2
MaxEntities == 1
MaxStatusChanges == 1

Document(hasText, entities, selected, redactedUrl) ==
  [text |-> hasText, entities |-> entities, selected |-> selected, redactedUrl |-> redactedUrl]

\* a handler of POST /api/detect or POST /api/export: the route, its
\* position, the HTTP status it has answered with (0 while running), the
\* document it is at, the job.documents it read at its start, the entities it
\* has stored or redacted, the matches it has still to store
Handler(kind, at, http, docs) == [kind |-> kind, pc |-> at, http |-> http, k |-> 1, docs |-> docs, count |-> 0, left |-> 0]

\* a job as POST /api/jobs creates it: PENDING, without documents.
\* patching counts the PATCH /api/jobs
\* handlers between their write of the status and their log row,
\* statusChanges the STATUS_CHANGED rows of the log.
InitJob ==
  /\ DetectorAtRest
  /\ apiKey \in BOOLEAN
  /\ CacheUntouched
  /\ MaskIdle
  /\ RateIdle
  /\ finder = [pc |-> "idle"]
  /\ redaction = [pc |-> "idle"]
  /\ route = [pc |-> "idle"]
  /\ job = [pc |-> "open", status |-> "PENDING", documents |-> <<>>, handlers |-> <<>>,
            patching |-> 0, statusChanges |-> 0]

\* upload-db/route.ts:31-52: POST /api/upload stores one of its files
UploadDocument ==
  /\ job.pc = "open"
  /\ Len(job.documents) < MaxDocuments
  /\ job' = [job EXCEPT !.documents = Append(@, Document(FALSE, 0, 0, ""))]
  /\ UNCHANGED <<detVars, cacheVars, maskLog, rateVars, finder, redaction, route>>

\* jobs/route.ts:93-110: PATCH /api/jobs with a status writes it to the job
PatchJobStatus ==
  /\ job.pc = "open"
  /\ job.patching + job.statusChanges < MaxStatusChanges
  /\ \E k \in 1..Len(JobStatuses) :
       job' = [job EXCEPT !.status = JobStatuses[k], !.patching = @ + 1]
  /\ UNCHANGED <<detVars, cacheVars, maskLog, rateVars, finder, redaction, route>>

\* jobs/route.ts:112-121: the STATUS_CHANGED row of the log, and the answer
PatchJobLog ==
  /\ job.pc = "open"
  /\ job.patching > 0
  /\ job' = [job EXCEPT !.patching = @ - 1, !.statusChanges = @ + 1]
  /\ UNCHANGED <<detVars, cacheVars, maskLog, rateVars, finder, redaction, route>>

\* detect/route.ts:186-214: PATCH /api/detect sets shouldRedact of one entity
\* (a bulk update is one such write per entity); a write of the value the
\* entity has changes nothing
PatchEntity ==
  /\ job.pc = "open"
  /\ \E k \in 1..Len(job.documents), shouldRedact \in BOOLEAN :
       IF shouldRedact
       THEN /\ job.documents[k].selected < job.documents[k].entities
            /\ job' = [job EXCEPT !.documents[k].selected = @ + 1]
       ELSE /\ job.documents[k].selected > 0
            /\ job' = [job EXCEPT !.documents[k].selected = @ - 1]
  /\ UNCHANGED <<detVars, cacheVars, maskLog, rateVars, finder, redaction, route>>

\* detect/route.ts:9-30: a POST /api/detect for the job arrives and reads the job
PostDetect ==
  /\ job.pc = "open"
  /\ Len(job.handlers) < MaxHandlers
  /\ job' = [job EXCEPT !.handlers =
               Append(@, IF Len(job.documents) = 0
                         THEN Handler("detect", "done", 400, <<>>)
                         ELSE Handler("detect", "begin", 0, job.documents))]
  /\ UNCHANGED <<detVars, cacheVars, maskLog, rateVars, finder, redaction, route>>

\* detect/route.ts:32-38
DetectBegin ==
  /\ job.pc = "open"
  /\ \E h \in 1..Len(job.handlers) :
       /\ job.handlers[h].kind = "detect"
       /\ job.handlers[h].pc = "begin"
       /\ job' = [job EXCEPT !.status = "PROCESSING_OCR", !.handlers[h].pc = "client"]
  /\ UNCHANGED <<detVars, cacheVars, maskLog, rateVars, finder, redaction, route>>

\* detect/route.ts:40: createCaseDevClient() throws without CASEDEV_API_KEY
\* and the handler answers 500 (lines 175-181)
DetectClient ==
  /\ job.pc = "open"
  /\ \E h \in 1..Len(job.handlers) :
       /\ job.handlers[h].kind = "detect"
       /\ job.handlers[h].pc = "client"
       /\ IF apiKey
          THEN job' = [job EXCEPT !.handlers[h].pc = "ocr"]
          ELSE job' = [job EXCEPT !.handlers[h].pc = "done", !.handlers[h].http = 500]
  /\ UNCHANGED <<detVars, cacheVars, maskLog, rateVars, finder, redaction, route>>

\* detect/route.ts:43-101: a document the handler read without text goes
\* through OCR, which completes with a text, completes with the empty text,
\* or fails, in which case the placeholder text is stored
DetectOcr ==
  /\ job.pc = "open"
  /\ \E h \in 1..Len(job.handlers) :
       LET hd == job.handlers[h]
       IN  /\ hd.kind = "detect"
           /\ hd.pc = "ocr"
           /\ IF hd.docs[hd.k].text
              THEN job' = [job EXCEPT !.handlers[h].pc = "status"]
              ELSE \E ocr \in {"text", "empty", "placeholder"} :
                     job' = [job EXCEPT !.documents[hd.k].text = (ocr # "empty"),
                                        !.handlers[h].pc = "status"]
  /\ UNCHANGED <<detVars, cacheVars, maskLog, rateVars, finder, redaction, route>>

\* detect/route.ts:103-106
DetectStatus ==
  /\ job.pc = "open"
  /\ \E h \in 1..Len(job.handlers) :
       /\ job.handlers[h].kind = "detect"
       /\ job.handlers[h].pc = "status"
       /\ job' = [job EXCEPT !.status = "DETECTING_PII", !.handlers[h].pc = "detect"]
  /\ UNCHANGED <<detVars, cacheVars, maskLog, rateVars, finder, redaction, route>>

\* where a detect handler goes after document k
AfterDocument(hd) == [hd EXCEPT !.k = @ + 1, !.left = 0, !.pc = IF hd.k = Len(hd.docs) THEN "review" ELSE "ocr"]

\* detect/route.ts:108-118, 134-147: detectAllPII resolves with some matches,
\* or rejects, which fails the document
DetectDocument ==
  /\ job.pc = "open"
  /\ \E h \in 1..Len(job.handlers) :
       LET hd == job.handlers[h]
       IN  /\ hd.kind = "detect"
           /\ hd.pc = "detect"
           /\ \E rejected \in BOOLEAN, n \in 0..MaxEntities :
                /\ rejected => n = 0
                /\ IF n = 0
                   THEN job' = [job EXCEPT !.handlers[h] = AfterDocument(hd)]
                   ELSE job' = [job EXCEPT !.handlers[h].pc = "store", !.handlers[h].left = n]
  /\ UNCHANGED <<detVars, cacheVars, maskLog, rateVars, finder, redaction, route>>

\* detect/route.ts:118-132: one match is stored as an entity with shouldRedact
StoreEntity ==
  /\ job.pc = "open"
  /\ \E h \in 1..Len(job.handlers) :
       LET hd == job.handlers[h]
           stored == [hd EXCEPT !.count = @ + 1, !.left = @ - 1]
       IN  /\ hd.kind = "detect"
           /\ hd.pc = "store"
           /\ job' = [job EXCEPT !.documents[hd.k].entities = @ + 1,
                                 !.documents[hd.k].selected = @ + 1,
                                 !.handlers[h] = IF stored.left = 0 THEN AfterDocument(stored) ELSE stored]
  /\ UNCHANGED <<detVars, cacheVars, maskLog, rateVars, finder, redaction, route>>

\* detect/route.ts:150-153: after the last document the handler writes
\* AWAITING_REVIEW to the job
DetectEnd ==
  /\ job.pc = "open"
  /\ \E h \in 1..Len(job.handlers) :
       /\ job.handlers[h].kind = "detect"
       /\ job.handlers[h].pc = "review"
       /\ job' = [job EXCEPT !.status = "AWAITING_REVIEW", !.handlers[h].pc = "log"]
  /\ UNCHANGED <<detVars, cacheVars, maskLog, rateVars, finder, redaction, route>>

\* detect/route.ts:155-174: the PII_DETECTED row of the log is inserted and
\* the handler answers 200
DetectAnswer ==
  /\ job.pc = "open"
  /\ \E h \in 1..Len(job.handlers) :
       /\ job.handlers[h].kind = "detect"
       /\ job.handlers[h].pc = "log"
       /\ job' = [job EXCEPT !.handlers[h].pc = "done", !.handlers[h].http = 200]
  /\ UNCHANGED <<detVars, cacheVars, maskLog, rateVars, finder, redaction, route>>

\* export/route.ts:8-32: a POST /api/export for the job arrives and reads the
\* job with its documents and their entities
PostExport ==
  /\ job.pc = "open"
  /\ Len(job.handlers) < MaxHandlers
  /\ job' = [job EXCEPT !.handlers = Append(@, Handler("export", "begin", 0, job.documents))]
  /\ UNCHANGED <<detVars, cacheVars, maskLog, rateVars, finder, redaction, route>>

\* export/route.ts:34-37
ExportBegin ==
  /\ job.pc = "open"
  /\ \E h \in 1..Len(job.handlers) :
       /\ job.handlers[h].kind = "export"
       /\ job.handlers[h].pc = "begin"
       /\ job' = [job EXCEPT !.status = "APPLYING_REDACTIONS", !.handlers[h].pc = "client"]
  /\ UNCHANGED <<detVars, cacheVars, maskLog, rateVars, finder, redaction, route>>

\* export/route.ts:39: createCaseDevClient() throws without CASEDEV_API_KEY
\* and the handler answers 500 (lines 136-142)
ExportClient ==
  /\ job.pc = "open"
  /\ \E h \in 1..Len(job.handlers) :
       /\ job.handlers[h].kind = "export"
       /\ job.handlers[h].pc = "client"
       /\ IF apiKey
          THEN job' = [job EXCEPT !.handlers[h].pc = "document"]
          ELSE job' = [job EXCEPT !.handlers[h].pc = "done", !.handlers[h].http = 500]
  /\ UNCHANGED <<detVars, cacheVars, maskLog, rateVars, finder, redaction, route>>

\* export/route.ts:43-72: a document read without text or without a selected
\* entity is passed over; else its redactions are applied and the job is set
\* to GENERATING_PDF
ExportDocument ==
  /\ job.pc = "open"
  /\ \E h \in 1..Len(job.handlers) :
       LET hd == job.handlers[h]
       IN  /\ hd.kind = "export"
           /\ hd.pc = "document"
           /\ hd.k <= Len(hd.docs)
           /\ IF ~hd.docs[hd.k].text \/ hd.docs[hd.k].selected = 0
              THEN job' = [job EXCEPT !.handlers[h].k = @ + 1]
              ELSE job' = [job EXCEPT !.status = "GENERATING_PDF",
                                      !.handlers[h].count = @ + hd.docs[hd.k].selected,
                                      !.handlers[h].pc = "format"]
  /\ UNCHANGED <<detVars, cacheVars, maskLog, rateVars, finder, redaction, route>>

\* export/route.ts:74-104: the Format API answers or fails, the document
\* gets the URL or the demo URL
ExportFormat ==
  /\ job.pc = "open"
  /\ \E h \in 1..Len(job.handlers) :
       LET hd == job.handlers[h]
       IN  /\ hd.kind = "export"
           /\ hd.pc = "format"
           /\ \E pdfUrl \in {"url", "#demo-pdf"} :
                job' = [job EXCEPT !.documents[hd.k].redactedUrl = pdfUrl,
                                   !.handlers[h].k = @ + 1,
                                   !.handlers[h].pc = "document"]
  /\ UNCHANGED <<detVars, cacheVars, maskLog, rateVars, finder, redaction, route>>

\* export/route.ts:111-114: after the last document the handler writes
\* COMPLETED to the job
ExportEnd ==
  /\ job.pc = "open"
  /\ \E h \in 1..Len(job.handlers) :
       LET hd == job.handlers[h]
       IN  /\ hd.kind = "export"
           /\ hd.pc = "document"
           /\ hd.k > Len(hd.docs)
           /\ job' = [job EXCEPT !.status = "COMPLETED", !.handlers[h].pc = "log"]
  /\ UNCHANGED <<detVars, cacheVars, maskLog, rateVars, finder, redaction, route>>

\* export/route.ts:116-135: the EXPORT_COMPLETED row of the log is inserted
\* and the handler answers 200
ExportAnswer ==
  /\ job.pc = "open"
  /\ \E h \in 1..Len(job.handlers) :
       /\ job.handlers[h].kind = "export"
       /\ job.handlers[h].pc = "log"
       /\ job' = [job EXCEPT !.handlers[h].pc = "done", !.handlers[h].http = 200]
  /\ UNCHANGED <<detVars, cacheVars, maskLog, rateVars, finder, redaction, route>>

NextJob ==
  \/ UploadDocument \/ PatchJobStatus \/ PatchJobLog \/ PatchEntity
  \/ PostDetect \/ DetectBegin \/ DetectClient \/ DetectOcr \/ DetectStatus \/ DetectDocument \/ StoreEntity \/ DetectEnd \/ DetectAnswer
  \/ PostExport \/ ExportBegin \/ ExportClient \/ ExportDocument \/ ExportFormat \/ ExportEnd \/ ExportAnswer

SpecJob == InitJob /\ [][NextJob]_vars

\* the place of a status in jobStatusEnum
StageOf(status) == CHOOSE k \in 1..Len(JobStatuses) : JobStatuses[k] = status

\* C30: a job's status only moves forward along PENDING, PROCESSING_OCR,
\* DETECTING_PII, AWAITING_REVIEW, APPLYING_REDACTIONS, GENERATING_PDF,
\* COMPLETED: under any sequence or interleaving of POST /api/detect and
\* POST /api/export for the job (no PATCH /api/jobs has written the status),
\* the status never returns to an earlier stage.
C30_StatusMovesForward ==
  [][(job'.patching = 0 /\ job'.statusChanges = 0) => StageOf(job'.status) >= StageOf(job.status)]_vars

====
